---- MODULE Spec2Model ----
(***************************************************************************)
(* safetype: runtime validators built from combinators (src/src/validator.ts) *)
(*                                                                         *)
(* The validation of one value is a recursive descent.  It is modelled as  *)
(* a machine with an explicit call stack: one frame per running validate   *)
(* function, one action per stretch of code between two nested calls.      *)
(* JavaScript values are tagged records; objects, arrays and functions     *)
(* live in a heap and are compared by address, as === compares them.       *)
(***************************************************************************)
EXTENDS Integers, Sequences, FiniteSets, TLC

VARIABLES
    heap,     \* the objects, arrays and functions that exist, by address
    stack,    \* the running validate functions, innermost last
    contexts, \* the string[] each context made by makeContext closes over
    ctl,      \* "idle" | "call" | "ret" | "throw" | "done"
    rv,       \* the value being returned to the frame on top of the stack
    err,      \* the message of the Error being thrown
    call,     \* the arguments of the running top-level call
    outcome,  \* what the top-level call gave its caller, once done
    prev,     \* the previous top-level call on the same value, and its outcome
    other     \* a second top-level call, suspended: its stack, ctl, rv, err,
              \* call and outcome

vars == <<heap, stack, contexts, ctl, rv, err, call, outcome, prev, other>>

----------------------------------------------------------------------------
(* Bounds of the checked inputs *)

\* longest array among the inputs
MaxLen == 2
\* how many times an input follows a self-reference of its validator
MaxDepth == 2
\* the longest path a context is driven to by hand
MaxPath == 3
\* the calls the engine's stack holds; the next call throws a RangeError
StackLimit == 16
\* the most parameters a function among the inputs declares
MaxParams == 2
\* the most validator objects a program keeps
MaxValidators == 4
\* the most calls a program makes one after the other on a validator
MaxCalls == 3

----------------------------------------------------------------------------
(* JavaScript values *)

Undefined == [t |-> "undefined", v |-> "", a |-> 0]
Null == [t |-> "null", v |-> "", a |-> 0]
Str(s) == [t |-> "string", v |-> s, a |-> 0]
Num(n) == [t |-> "number", v |-> n, a |-> 0]
Bool(b) == [t |-> "boolean", v |-> b, a |-> 0]
\* a reference to the object or array at address a
Ref(a) == [t |-> "object", v |-> "", a |-> a]
\* a reference to the function at address a
FunRef(a) == [t |-> "function", v |-> "", a |-> a]

\* typeof x, except that null is kept apart
TypeOf(x) == IF x.t = "null" THEN "object" ELSE x.t

\* x === y: NaN is not equal to itself, containers are equal by address
StrictEq(x, y) == x = y /\ ~(x.t = "number" /\ x.v = "NaN")

\* Array.isArray(x)
IsArray(x, h) == x.t = "object" /\ h[x.a].kind = "array"

\* i.toString() for an array index
IndexKey(i) == ToString(i)

\* the keys "0", "1", ... of an array of n elements
IndexKeys(n) == [i \in 1..n |-> IndexKey(i - 1)]

\* Object.keys(x): the own enumerable keys, in order
keys(x, h) == IF x.t \in {"object", "function"} THEN h[x.a].keys ELSE <<>>

\* the position of key k among the own keys of x, 0 if x does not own it
KeyIndex(x, k, h) ==
    LET ks == keys(x, h)
        hits == {i \in 1..Len(ks) : ks[i] = k}
    IN IF hits = {} THEN 0 ELSE CHOOSE i \in hits : TRUE

\* x.hasOwnProperty(k)
HasOwn(x, k, h) == KeyIndex(x, k, h) # 0

\* x[k]: an own property, or undefined (the inputs are plain data, whose
\* prototypes hold none of the keys the validators here declare)
GetProp(x, k, h) ==
    IF HasOwn(x, k, h) THEN h[x.a].vals[KeyIndex(x, k, h)] ELSE Undefined

typeName(x, h) ==
    IF x.t = "null" THEN "null"
    ELSE IF x.t = "undefined" THEN "undefined"
    ELSE IF IsArray(x, h) THEN "an array"
    ELSE IF TypeOf(x) = "object" THEN "an object"
    ELSE "a " \o TypeOf(x)

----------------------------------------------------------------------------
(* The context: makeContext *)

RECURSIVE JoinFrom(_, _)
JoinFrom(segs, i) ==
    IF i > Len(segs) THEN ""
    ELSE IF i = Len(segs) THEN segs[i]
    ELSE segs[i] \o "." \o JoinFrom(segs, i + 1)

\* context.path.current(): path.join(".")
current(p) == JoinFrom(p, 1)

\* the message of the Error that context.fail(message) throws
fail(p, message) ==
    IF current(p) = ""
    THEN "Validation error: " \o message
    ELSE "Validation error for key '" \o current(p) \o "': " \o message

\* (a bug: path.unshift(key))
pushKeyInFront(p, key) == <<key>> \o p

pushKey(p, key) == Append(p, key)

popKey(p) == IF p = <<>> THEN p ELSE SubSeq(p, 1, Len(p) - 1)

----------------------------------------------------------------------------
(* Validators.  A validator is the closure makeValidator returns; it is    *)
(* modelled by the code of its validate function (k) and the values that   *)
(* function closes over (arg, subs, keys, thunks, values).                 *)

makeValidator(k, arg, subs, ks, thunks, values) ==
    [k |-> k, arg |-> arg, subs |-> subs, keys |-> ks, thunks |-> thunks,
     values |-> values]

aString == makeValidator("primitive", "string", <<>>, <<>>, <<>>, <<>>)
aBoolean == makeValidator("primitive", "boolean", <<>>, <<>>, <<>>, <<>>)
aNumber == makeValidator("primitive", "number", <<>>, <<>>, <<>>, <<>>)

aStringUnion(values) ==
    makeValidator("aStringUnion", "", <<>>, <<>>, <<>>, values)

aStringLiteral(value) == aStringUnion(<<value>>)

\* the getters orNull, orUndefined and array, and the method or
orNull(V) == makeValidator("orNull", "", <<V>>, <<>>, <<>>, <<>>)
orUndefined(V) == makeValidator("orUndefined", "", <<V>>, <<>>, <<>>, <<>>)
array(V) == makeValidator("array", "", <<V>>, <<>>, <<>>, <<>>)
or(V, otherValidator) ==
    makeValidator("or", "", <<V, otherValidator>>, <<>>, <<>>, <<>>)

\* anObject(validators): ks are the declared keys in declaration order,
\* entries[i] the ThunkValidator of ks[i], thunks[i] whether it is a function
anObject(ks, entries, thunks) ==
    makeValidator("anObject", "", entries, ks, thunks, <<>>)

\* inside a thunk: the validator a variable of the program holds when the
\* thunk runs
Var(name) == makeValidator("var", name, <<>>, <<>>, <<>>, <<>>)

\* a validator made from a function of the caller: new Hex(value) for a
\* string of hex digits
aHexString == makeValidator("custom", "Hex", <<>>, <<>>, <<>>, <<>>)

\* the strings among the inputs that match /^[0-9A-Fa-f]+$/
HexStrings == {"A", "B"}

\* aFunction: the validator of line 259 with the method thatAccepts
aFunction == makeValidator("aFunction", "", <<>>, <<>>, <<>>, <<>>)

\* aFunction.thatAccepts(param1, ...): { ...validator, andReturns }, whose
\* validate function is the one of aFunction whatever the parameters are
thatAccepts(params) == aFunction

\* acceptor.andReturns(result): makeValidator(v => v)
andReturns(acceptor, result) == makeValidator("andReturns", "", <<>>, <<>>, <<>>, <<>>)

(* The validators of the tests and examples *)

aSubItem ==
    anObject(<<"name", "value">>,
             <<aString, or(or(aBoolean, aNumber), aString)>>,
             <<FALSE, FALSE>>)

itemValidator ==
    anObject(<<"name", "subItems", "nextItem">>,
             <<aString, orUndefined(array(aSubItem)),
               orUndefined(Var("itemValidator"))>>,
             <<FALSE, FALSE, TRUE>>)

listValidator ==
    anObject(<<"value", "next">>,
             <<aNumber, orNull(Var("listValidator"))>>,
             <<FALSE, TRUE>>)

aResponse ==
    anObject(<<"data", "meta">>,
             <<orNull(array(aHexString)), orUndefined(orNull(aString))>>,
             <<FALSE, FALSE>>)

aPerson ==
    anObject(<<"name", "extra">>,
             <<aString, orUndefined(aString)>>,
             <<FALSE, FALSE>>)

union == or(or(aString, aBoolean), array(aNumber))

anOutcome ==
    or(anObject(<<"kind", "data", "timestamp">>,
                <<aStringLiteral("Success"), array(aString), aNumber>>,
                <<FALSE, FALSE, FALSE>>),
       anObject(<<"kind", "error", "stackTrace">>,
                <<aStringLiteral("Error"), aString, orUndefined(aString)>>,
                <<FALSE, FALSE, FALSE>>))

aKind == orUndefined(aStringUnion(<<"A", "B">>))

\* a thunk of the caller with a state of its own: it counts its calls in
\* the array calls, returns aString when called first and aNumber when
\* called second, and throws after that
Counting == makeValidator("counting", "calls", <<aString, aNumber>>, <<>>, <<>>, <<>>)

\* arrays of objects whose key a is declared with the counting thunk
counted == array(anObject(<<"a">>, <<Counting>>, <<TRUE>>))

\* anObject({}) and anObject({ "0": aString })
anEmpty == anObject(<<>>, <<>>, <<>>)
aFirst == anObject(<<"0">>, <<aString>>, <<FALSE>>)

\* the variables of the program that hold a validator
Named(name) ==
    CASE name = "itemValidator" -> itemValidator
      [] name = "listValidator" -> listValidator
      [] name = "aResponse" -> aResponse
      [] name = "aPerson" -> aPerson
      [] name = "union" -> union
      [] name = "anOutcome" -> anOutcome
      [] name = "aKind" -> aKind
      [] name = "aString" -> aString
      [] name = "aNumber" -> aNumber
      [] name = "aBoolean" -> aBoolean
      [] name = "aFunction" -> aFunction
      [] name = "thatAccepts" -> thatAccepts(<<aBoolean>>)
      [] name = "c" -> andReturns(thatAccepts(<<aBoolean>>), aString)
      [] name = "d" -> andReturns(thatAccepts(<<aBoolean, aNumber>>), aString)
      [] name = "counted" -> counted
      [] name = "anEmpty" -> anEmpty
      [] name = "aFirst" -> aFirst

\* the validators a top-level call is made on
Validators ==
    {"itemValidator", "listValidator", "aResponse", "aPerson", "union",
     "anOutcome", "aKind", "aString", "aNumber", "aBoolean",
     "aFunction", "thatAccepts", "c", "d"}

\* validator(): what the body of a thunk evaluates to
\* (a bug: the thunk yields the variable's validator without its wrapper)
RECURSIVE ResolveBare(_)
ResolveBare(e) ==
    IF e.k = "var" THEN Named(e.arg)
    ELSE IF e.k \in {"orNull", "orUndefined", "array"}
    THEN ResolveBare(e.subs[1])
    ELSE e

RECURSIVE Resolve(_)
Resolve(e) ==
    IF e.k = "var" THEN Named(e.arg)
    ELSE IF e.k \in {"orNull", "orUndefined", "array"}
    THEN [e EXCEPT !.subs = <<Resolve(e.subs[1])>>]
    ELSE e

\* typeof validator === "function" ? validator() : validator
Entry(V, i) == IF V.thunks[i] THEN Resolve(V.subs[i]) ELSE V.subs[i]

----------------------------------------------------------------------------
(* The checked inputs.  An input is described by a term and is built in    *)
(* the heap when a call starts, every container at an address of its own.  *)

Atom(x) == [t |-> "atom", val |-> x, keys |-> <<>>, kids |-> <<>>]
ArrayTerm(kids) == [t |-> "array", val |-> Undefined, keys |-> <<>>, kids |-> kids]
ObjectTerm(ks, kids) == [t |-> "object", val |-> Undefined, keys |-> ks, kids |-> kids]
FunctionTerm == [t |-> "function", val |-> Undefined, keys |-> <<>>, kids |-> <<>>]
\* a function that declares n parameters; they are no keys of it
FunctionWith(n) ==
    [t |-> "function", val |-> Undefined, keys |-> <<>>,
     kids |-> [i \in 1..n |-> Atom(Str("parameter"))]]
\* stands for a key the input does not own
Absent == [t |-> "absent", val |-> Undefined, keys |-> <<>>, kids |-> <<>>]

Cell(kind, ks, vals) == [kind |-> kind, keys |-> ks, vals |-> vals]

RECURSIVE Load(_, _), LoadKids(_, _, _)
\* the value of term tm and the heap h extended with its containers
Load(tm, h) ==
    IF tm.t = "atom" THEN [val |-> tm.val, heap |-> h]
    ELSE LET a == Len(h) + 1
             r == LoadKids(tm.kids, Append(h, Cell(tm.t, <<>>, <<>>)), <<>>)
             ks == IF tm.t = "array" THEN IndexKeys(Len(tm.kids)) ELSE tm.keys
         IN [val |-> IF tm.t = "function" THEN FunRef(a) ELSE Ref(a),
             heap |-> [r.heap EXCEPT ![a] = Cell(tm.t, ks, r.vals)]]
LoadKids(kids, h, acc) ==
    IF kids = <<>> THEN [vals |-> acc, heap |-> h]
    ELSE LET r == Load(Head(kids), h)
         IN LoadKids(Tail(kids), r.heap, Append(acc, r.val))

\* the values without identity, and the smallest containers
Atoms ==
    {Atom(Str("A")), Atom(Str("x")), Atom(Num("1")), Atom(Num("NaN")),
     Atom(Bool("true")), Atom(Null), Atom(Undefined),
     ObjectTerm(<<>>, <<>>), ArrayTerm(<<>>), FunctionTerm}

\* the functions tried on the validators of functions
Functions == {FunctionWith(n) : n \in 0..MaxParams}

\* the terms of the sequence that are not Absent, with their keys
RECURSIVE Present(_, _, _)
Present(ks, kids, i) ==
    IF i > Len(ks) THEN [keys |-> <<>>, kids |-> <<>>]
    ELSE LET rest == Present(ks, kids, i + 1)
         IN IF kids[i] = Absent THEN rest
            ELSE [keys |-> <<ks[i]>> \o rest.keys, kids |-> <<kids[i]>> \o rest.kids]

\* an object with the declared keys whose term is not Absent, then the extra keys
MakeObject(ks, kids, extra) ==
    LET p == Present(ks, kids, 1)
    IN ObjectTerm(p.keys \o extra, p.kids \o [i \in 1..Len(extra) |-> Atom(Str("bar"))])

\* where the inputs stop following a self-reference: null, or no key
End(V) == IF V.k = "orNull" THEN Atom(Null) ELSE Absent

RECURSIVE Canon(_)
\* one input the validator accepts
Canon(V) ==
    CASE V.k = "primitive" ->
            Atom(CASE V.arg = "string" -> Str("A")
                   [] V.arg = "number" -> Num("1")
                   [] V.arg = "boolean" -> Bool("true"))
      [] V.k = "aStringUnion" -> Atom(Str(V.values[1]))
      [] V.k = "custom" -> Atom(Str("A"))
      [] V.k \in {"orNull", "orUndefined"} -> Canon(V.subs[1])
      [] V.k = "array" ->
            \* empty, unless the elements are replaced by new values
            ArrayTerm(IF V.subs[1].k = "custom" THEN <<Canon(V.subs[1])>> ELSE <<>>)
      [] V.k = "or" -> Canon(V.subs[2])
      [] V.k = "anObject" ->
            MakeObject(V.keys,
                       [i \in 1..Len(V.keys) |->
                           IF V.thunks[i] THEN End(V.subs[i]) ELSE Canon(V.subs[i])],
                       <<>>)

\* one input the validator rejects
Wrong(V) ==
    CASE V.k = "primitive" /\ V.arg = "string" -> Atom(Num("1"))
      [] V.k = "or" -> Atom(Null)
      [] V.k \in {"orNull", "orUndefined"} /\ V.subs[1].k = "primitive"
            /\ V.subs[1].arg = "string" -> Atom(Num("1"))
      [] OTHER -> Atom(Str("x"))

\* the values tried for a key or an element next to others that vary
Local(V) == {Canon(V), Wrong(V), Atom(Undefined)}

ExtraKeys == {<<>>, <<"foo">>}

RECURSIVE Gen(_, _)
\* the inputs tried on validator V: every atom; containers whose keys or
\* elements all vary over a few values; and containers with one key or
\* element varying over all of its validator's inputs, d self-references deep
Gen(V, d) ==
    CASE V.k \in {"orNull", "orUndefined"} -> Gen(V.subs[1], d)
      [] V.k = "or" -> Gen(V.subs[1], d) \cup Gen(V.subs[2], d)
      [] V.k = "array" ->
            LET E == V.subs[1]
            IN Atoms
               \cup {ArrayTerm(s) : s \in UNION {[1..n -> Local(E)] : n \in 0..MaxLen}}
               \cup {ArrayTerm([j \in 1..n |-> IF j = i THEN e ELSE Canon(E)]) :
                        <<n, i, e>> \in {<<n, i, e>> \in (1..MaxLen) \X (1..MaxLen) \X Gen(E, d) :
                                            i <= n}}
      [] V.k = "anObject" ->
            LET n == Len(V.keys)
                Choices(i) == Local(Entry(V, i)) \cup {Absent}
                All == UNION {Choices(i) : i \in 1..n}
                Deep(i) == IF V.thunks[i]
                           THEN (IF d = 0 THEN {} ELSE Gen(Entry(V, i), d - 1))
                           ELSE Gen(Entry(V, i), d)
            IN Atoms
               \cup {MakeObject(V.keys, f, x) :
                        <<f, x>> \in {f \in [1..n -> All] : \A i \in 1..n : f[i] \in Choices(i)}
                                        \X ExtraKeys}
               \cup UNION {{MakeObject(V.keys,
                                       [j \in 1..n |-> IF j = i THEN e ELSE Canon(Entry(V, j))],
                                       <<>>) : e \in Deep(i)} : i \in 1..n}
      [] V.k \in {"aFunction", "andReturns"} -> Atoms \cup Functions
      [] OTHER -> Atoms

----------------------------------------------------------------------------
(* The machine *)

\* the ValidationOptions tried: {}, and allowExtraProperties false and true
Options ==
    {[allowExtraProperties |-> Undefined],
     [allowExtraProperties |-> Bool("false")],
     [allowExtraProperties |-> Bool("true")]}

\* (a bug: options.allowExtraProperties === false, so that {} allows them)
NoExtraPropertiesWhenFalse(o) == o.allowExtraProperties = Bool("false")

\* !options.allowExtraProperties
NoExtraProperties(o) == o.allowExtraProperties # Bool("true")

\* the running validate function of validator V, called with (x, o, c): c
\* is the index of the context; i counts the keys or elements done (for or:
\* the alternatives that failed), result is the address of the container
\* being built
Frame(V, x, o, c) ==
    [v |-> V, x |-> x, options |-> o, context |-> c,
     i |-> 0, result |-> 0, changed |-> FALSE]

Top == stack[Len(stack)]
Pop == SubSeq(stack, 1, Len(stack) - 1)

NoOutcome == [kind |-> "none", value |-> Undefined, message |-> ""]
\* path: the path that the context of the call held when the call was made
NoCall ==
    [validator |-> "", value |-> Undefined, options |-> Undefined, method |-> "",
     path |-> <<>>]
\* no second call
NoTask ==
    [stack |-> <<>>, ctl |-> "none", rv |-> Undefined, err |-> "", call |-> NoCall,
     outcome |-> NoOutcome]

\* const result = [] or {}: the heap with a new empty container
Alloc(h, kind) == Append(h, Cell(kind, <<>>, <<>>))

\* container[key] = val on the container at address a
SetProp(h, a, key, val) ==
    LET i == KeyIndex(Ref(a), key, h)
    IN IF i = 0
       THEN [h EXCEPT ![a].keys = Append(@, key), ![a].vals = Append(@, val)]
       ELSE [h EXCEPT ![a].vals[i] = val]

\* result.push(val) on the array at address a
Push(h, a, val) == SetProp(h, a, IndexKey(Len(h[a].vals)), val)

\* (a bug: the context made for the first call is used by every call)
makeContextOnce(cs) == IF cs = <<>> THEN <<<<>>>> ELSE cs

\* const path: string[] = []: the contexts with a new one
makeContext(cs) == Append(cs, <<>>)

\* context.path.pushKey(key) and popKey() on the context of frame f
WithKey(cs, f, key) == [cs EXCEPT ![f.context] = pushKey(@, key)]
WithoutKey(cs, f) == [cs EXCEPT ![f.context] = popKey(@)]

\* context.fail(message) in frame f: the message of the Error thrown
Fail(f, message) == fail(contexts[f.context], message)

Running(kind) == ctl = "call" /\ stack # <<>> /\ Top.v.k = kind
Returned(kind) == ctl = "ret" /\ stack # <<>> /\ Top.v.k = kind
Thrown(kind) == ctl = "throw" /\ stack # <<>> /\ Top.v.k = kind

Frozen == UNCHANGED <<call, outcome, prev, other>>

\* return val: the frame on top is left, its caller resumes with val
Return(val, h, cs) ==
    /\ stack' = Pop
    /\ ctl' = "ret"
    /\ rv' = val
    /\ err' = ""
    /\ heap' = h
    /\ contexts' = cs
    /\ Frozen

\* an Error with this message leaves the frame on top
Throw(message, h, cs) ==
    /\ stack' = Pop
    /\ ctl' = "throw"
    /\ rv' = Undefined
    /\ err' = message
    /\ heap' = h
    /\ contexts' = cs
    /\ Frozen

\* (a bug: the callee is not given the options and takes the default {})
CalleeWithoutOptions(f, V, x) ==
    Frame(V, x, [allowExtraProperties |-> Undefined], f.context)

\* (a bug: one context, made when the module loads, is used by every call)
CalleeSharedContext(f, V, x) == Frame(V, x, f.options, 1)

\* the frame of validate(x, options, context) called from frame f
Callee(f, V, x) == Frame(V, x, f.options, f.context)

\* the message of the Error the engine throws for a call its stack cannot hold
RangeError == "RangeError: Maximum call stack size exceeded"

\* the frame on top, now f, calls validate of V on x
Invoke(f, V, x, h, cs) ==
    /\ IF Len(stack) < StackLimit
       THEN /\ stack' = Append(Pop, f) \o <<Callee(f, V, x)>>
            /\ ctl' = "call"
            /\ err' = ""
       ELSE /\ stack' = Append(Pop, f)
            /\ ctl' = "throw"
            /\ err' = RangeError
    /\ rv' = Undefined
    /\ heap' = h
    /\ contexts' = cs
    /\ Frozen

(* aString, aBoolean, aNumber, aStringUnion and a validator of the caller *)

\* (a bug: undefined passes every primitive validator)
CallPrimitiveOrUndefined ==
    /\ Running("primitive")
    /\ LET f == Top
       IN IF TypeOf(f.x) = f.v.arg \/ f.x = Undefined
          THEN Return(f.x, heap, contexts)
          ELSE Throw(Fail(f, "expected a " \o f.v.arg \o ", not " \o typeName(f.x, heap)),
                     heap, contexts)

CallPrimitive ==
    /\ Running("primitive")
    /\ LET f == Top
       IN IF TypeOf(f.x) = f.v.arg
          THEN Return(f.x, heap, contexts)
          ELSE Throw(Fail(f, "expected a " \o f.v.arg \o ", not " \o typeName(f.x, heap)),
                     heap, contexts)

\* values.indexOf(x)
IndexOf(values, x) ==
    LET hits == {i \in 1..Len(values) : StrictEq(Str(values[i]), x)}
    IN IF hits = {} THEN -1 ELSE (CHOOSE i \in hits : \A j \in hits : i <= j) - 1

RECURSIVE ExpectedTypeWithCommas(_, _)
\* (a bug: join(", "))
ExpectedTypeWithCommas(values, i) ==
    IF i > Len(values) THEN ""
    ELSE "\"" \o values[i] \o "\""
         \o (IF i < Len(values) THEN ", " \o ExpectedTypeWithCommas(values, i + 1) ELSE "")

RECURSIVE ExpectedType(_, _)
\* values.map(x => `"${x}"`).join(" | ")
ExpectedType(values, i) ==
    IF i > Len(values) THEN ""
    ELSE "\"" \o values[i] \o "\""
         \o (IF i < Len(values) THEN " | " \o ExpectedType(values, i + 1) ELSE "")

CallStringUnion ==
    /\ Running("aStringUnion")
    /\ LET f == Top
       IN IF IndexOf(f.v.values, f.x) = -1
          THEN Throw(Fail(f, "expected " \o ExpectedType(f.v.values, 1) \o ", not "
                             \o typeName(f.x, heap)),
                     heap, contexts)
          ELSE Return(f.x, heap, contexts)

\* aHexString of the custom example: new Hex(value)
CallCustom ==
    /\ Running("custom")
    /\ LET f == Top
       IN IF f.x.t # "string" \/ f.x.v \notin HexStrings
          THEN Throw(Fail(f, "expected a string of hex digits, not " \o typeName(f.x, heap)),
                     heap, contexts)
          ELSE Return(Ref(Len(heap) + 1),
                      Append(heap, Cell("object", <<"digits">>, <<f.x>>)),
                      contexts)

(* aFunction, thatAccepts, andReturns *)

\* x.length of a function: the number of parameters it declares
ParameterCount(x, h) == Len(h[x.a].vals)

\* (a bug: only functions without parameters pass)
CallFunctionWithoutParameters ==
    /\ Running("aFunction")
    /\ LET f == Top
       IN IF TypeOf(f.x) # "function" \/ ParameterCount(f.x, heap) # 0
          THEN Throw(Fail(f, "expected a function, not " \o typeName(f.x, heap)), heap, contexts)
          ELSE Return(f.x, heap, contexts)

CallFunction ==
    /\ Running("aFunction")
    /\ LET f == Top
       IN IF TypeOf(f.x) # "function"
          THEN Throw(Fail(f, "expected a function, not " \o typeName(f.x, heap)), heap, contexts)
          ELSE Return(f.x, heap, contexts)

\* v => v
CallAndReturns ==
    /\ Running("andReturns")
    /\ Return(Top.x, heap, contexts)

(* orNull, orUndefined, or *)

\* (a bug: x == null, which undefined satisfies too)
CallOrNullLoosely ==
    /\ Running("orNull")
    /\ LET f == Top
       IN IF f.x \in {Null, Undefined}
          THEN Return(f.x, heap, contexts)
          ELSE Invoke(f, f.v.subs[1], f.x, heap, contexts)

CallOrNull ==
    /\ Running("orNull")
    /\ LET f == Top
       IN IF f.x = Null
          THEN Return(Null, heap, contexts)
          ELSE Invoke(f, f.v.subs[1], f.x, heap, contexts)

\* (a bug: x == undefined, which null satisfies too)
CallOrUndefinedLoosely ==
    /\ Running("orUndefined")
    /\ LET f == Top
       IN IF f.x \in {Null, Undefined}
          THEN Return(f.x, heap, contexts)
          ELSE Invoke(f, f.v.subs[1], f.x, heap, contexts)

CallOrUndefined ==
    /\ Running("orUndefined")
    /\ LET f == Top
       IN IF f.x = Undefined
          THEN Return(Undefined, heap, contexts)
          ELSE Invoke(f, f.v.subs[1], f.x, heap, contexts)

\* (a bug: the other validator is tried first)
CallOrOtherFirst ==
    /\ Running("or")
    /\ Invoke(Top, Top.v.subs[2], Top.x, heap, contexts)

\* try { return validate(x, options, context) }
CallOr ==
    /\ Running("or")
    /\ Invoke(Top, Top.v.subs[1], Top.x, heap, contexts)

\* catch { return otherValidator.validate(x, options, context) }
CatchOr ==
    /\ Thrown("or")
    /\ Top.i = 0
    /\ Invoke([Top EXCEPT !.i = 1], Top.v.subs[2], Top.x, heap, contexts)

\* return validate(...): what the callee returned is returned
ReturnThrough ==
    /\ \/ Returned("orNull")
       \/ Returned("orUndefined")
       \/ Returned("or")
    /\ Return(rv, heap, contexts)

\* an Error passes a frame that is in no try block
Propagate ==
    /\ \/ Thrown("orNull")
       \/ Thrown("orUndefined")
       \/ Thrown("or") /\ Top.i = 1
    /\ Throw(err, heap, contexts)

(* array *)

\* x.length and x[i] of an array
Length(x, h) == Len(h[x.a].vals)
Element(x, i, h) == h[x.a].vals[i + 1]

\* (a bug: the array built is returned even when nothing changed)
ArrayResultAlwaysBuilt(f) == Ref(f.result)

\* return changed ? result : x
ArrayResult(f) == IF f.changed THEN Ref(f.result) ELSE f.x

\* the head of the loop over the elements, in frame f with the key popped:
\* push the next index and validate the element, or return after the last
ArrayLoop(f, h, cs) ==
    IF f.i < Length(f.x, h)
    THEN Invoke(f, f.v.subs[1], Element(f.x, f.i, h), h, WithKey(cs, f, IndexKey(f.i)))
    ELSE Return(ArrayResult(f), h, cs)

CallArray ==
    /\ Running("array")
    /\ LET f == Top
       IN IF ~IsArray(f.x, heap)
          THEN Throw(Fail(f, "expected an array, not " \o typeName(f.x, heap)), heap, contexts)
          ELSE ArrayLoop([f EXCEPT !.result = Len(heap) + 1], Alloc(heap, "array"), contexts)

\* (a bug: changed = value !== validatedValue, earlier changes are forgotten)
ArrayChangedByLast(changed, value, validatedValue) == ~StrictEq(value, validatedValue)

\* changed || value !== validatedValue
ArrayChanged(changed, value, validatedValue) ==
    changed \/ ~StrictEq(value, validatedValue)

\* the element validated: result.push, changed, finally popKey, i++
ReturnArray ==
    /\ Returned("array")
    /\ LET f == Top
           value == Element(f.x, f.i, heap)
       IN ArrayLoop([f EXCEPT !.i = @ + 1,
                              !.changed = ArrayChanged(@, value, rv)],
                    Push(heap, f.result, rv),
                    WithoutKey(contexts, f))

\* (a bug: no finally, the index stays on the path when the element is rejected)
ThrowArrayKeepingIndex ==
    /\ Thrown("array")
    /\ Throw(err, heap, contexts)

\* the element rejected: finally popKey, and the Error goes on
ThrowArray ==
    /\ Thrown("array")
    /\ Throw(err, heap, WithoutKey(contexts, Top))

(* anObject *)

\* validators.hasOwnProperty(key)
Declared(V, key) == \E i \in 1..Len(V.keys) : V.keys[i] = key

\* the keys of x that are not declared, in the order of keys(x)
ExtraProperties(V, x, h) == SelectSeq(keys(x, h), LAMBDA k : ~Declared(V, k))

RECURSIVE CopyProperties(_, _, _, _, _)
\* result[key] = x[key] for each of the keys ks from the i-th on
CopyProperties(h, result, x, ks, i) ==
    IF i > Len(ks) THEN h
    ELSE CopyProperties(SetProp(h, result, ks[i], GetProp(x, ks[i], h)), result, x, ks, i + 1)

\* (a bug: the object built is returned even when nothing changed)
ObjectResultAlwaysBuilt(f) == Ref(f.result)

\* return changed ? result : x
ObjectResult(f) == IF f.changed THEN Ref(f.result) ELSE f.x

\* (not the code: an extra key that is copied counts as a change)
CheckExtraKeysAsChange(f, h, cs) ==
    LET extra == ExtraProperties(f.v, f.x, h)
    IN IF extra # <<>> /\ NoExtraProperties(f.options)
       THEN Throw(fail(cs[f.context], "unexpected property \"" \o extra[1] \o "\""), h, cs)
       ELSE Return(IF extra # <<>> THEN Ref(f.result) ELSE ObjectResult(f),
                   CopyProperties(h, f.result, f.x, extra, 1), cs)

\* the check for extra keys, after the declared keys, and the return
CheckExtraKeys(f, h, cs) ==
    LET extra == ExtraProperties(f.v, f.x, h)
    IN IF extra # <<>> /\ NoExtraProperties(f.options)
       THEN Throw(fail(cs[f.context], "unexpected property \"" \o extra[1] \o "\""), h, cs)
       ELSE Return(ObjectResult(f), CopyProperties(h, f.result, f.x, extra, 1), cs)

\* the address of the array calls
Scope == 1

\* what a thunk that throws leaves validate without
NoValidator == makeValidator("none", "", <<>>, <<>>, <<>>, <<>>)

\* the message of the Error that the counting thunk throws
ThunkError == "Error: no validator"

\* (a bug: the validator that the thunk returned first is kept for the key)
ThunkCached(V, i, h) ==
    LET e == V.subs[i]
    IN IF V.thunks[i] /\ e.k = "counting"
       THEN [validate |-> e.subs[1], heap |-> Push(h, Scope, Num("1"))]
       ELSE [validate |-> Entry(V, i), heap |-> h]

\* typeof validator === "function" ? validator().validate : validator.validate
\* for declared key number i: the validator to call, and the heap after the
\* call of the thunk
Thunk(V, i, h) ==
    LET e == V.subs[i]
        n == Length(Ref(Scope), h)
    IN IF V.thunks[i] /\ e.k = "counting"
       THEN [validate |-> IF n < Len(e.subs) THEN e.subs[n + 1] ELSE NoValidator,
             heap |-> Push(h, Scope, Num("1"))]
       ELSE [validate |-> Entry(V, i), heap |-> h]

\* (a bug: the extra keys are checked before the first declared key)
ObjectLoopExtraKeysFirst(f, h, cs) ==
    IF f.i = 0 /\ ExtraProperties(f.v, f.x, h) # <<>> /\ NoExtraProperties(f.options)
    THEN CheckExtraKeys(f, h, cs)
    ELSE IF f.i < Len(f.v.keys)
    THEN LET key == f.v.keys[f.i + 1]
             validator == Thunk(f.v, f.i + 1, h)
         IN IF validator.validate = NoValidator
            THEN Throw(ThunkError, validator.heap, cs)
            ELSE Invoke(f, validator.validate, GetProp(f.x, key, h), validator.heap,
                        WithKey(cs, f, key))
    ELSE CheckExtraKeys(f, h, cs)

\* the head of the loop over the declared keys, in frame f with the key
\* popped: resolve the validator of the next key, push the key and validate
\* x[key]; after the last key, check for extra keys
ObjectLoop(f, h, cs) ==
    IF f.i < Len(f.v.keys)
    THEN LET key == f.v.keys[f.i + 1]
             validator == Thunk(f.v, f.i + 1, h)
         IN IF validator.validate = NoValidator
            THEN Throw(ThunkError, validator.heap, cs)
            ELSE Invoke(f, validator.validate, GetProp(f.x, key, h), validator.heap,
                        WithKey(cs, f, key))
    ELSE CheckExtraKeys(f, h, cs)

\* (not the code: an object that a calling frame is validating is rejected)
CallObjectDetectingCycles ==
    /\ Running("anObject")
    /\ LET f == Top
       IN IF f.x = Null \/ TypeOf(f.x) # "object"
          THEN Throw(Fail(f, "expected an object, not " \o typeName(f.x, heap)), heap, contexts)
          ELSE IF \E j \in 1..(Len(stack) - 1) : stack[j].v.k = "anObject" /\ stack[j].x = f.x
          THEN Throw(Fail(f, "expected an object, not a cycle"), heap, contexts)
          ELSE ObjectLoop([f EXCEPT !.result = Len(heap) + 1], Alloc(heap, "object"), contexts)

\* (not the code: an array is rejected as not an object)
CallObjectRejectingArrays ==
    /\ Running("anObject")
    /\ LET f == Top
       IN IF f.x = Null \/ TypeOf(f.x) # "object" \/ IsArray(f.x, heap)
          THEN Throw(Fail(f, "expected an object, not " \o typeName(f.x, heap)), heap, contexts)
          ELSE ObjectLoop([f EXCEPT !.result = Len(heap) + 1], Alloc(heap, "object"), contexts)

CallObject ==
    /\ Running("anObject")
    /\ LET f == Top
       IN IF f.x = Null \/ TypeOf(f.x) # "object"
          THEN Throw(Fail(f, "expected an object, not " \o typeName(f.x, heap)), heap, contexts)
          ELSE ObjectLoop([f EXCEPT !.result = Len(heap) + 1], Alloc(heap, "object"), contexts)

\* (a bug: the key is left out whenever its validated value is undefined)
LeftOutWhenUndefined(validatedValue, x, key, h) == validatedValue = Undefined

\* validatedValue === undefined && !x.hasOwnProperty(key): the key is left out
LeftOut(validatedValue, x, key, h) ==
    validatedValue = Undefined /\ ~HasOwn(x, key, h)

\* changed || validatedValue !== value
ObjectChanged(changed, validatedValue, value) ==
    changed \/ ~StrictEq(validatedValue, value)

\* (a bug: x[key] = validatedValue, the input is normalised in place)
ReturnObjectInPlace ==
    /\ Returned("anObject")
    /\ LET f == Top
           key == f.v.keys[f.i + 1]
           value == GetProp(f.x, key, heap)
           g == [f EXCEPT !.i = @ + 1]
       IN IF LeftOut(rv, f.x, key, heap)
          THEN ObjectLoop(g, heap, WithoutKey(contexts, f))
          ELSE ObjectLoop([g EXCEPT !.changed = ObjectChanged(@, rv, value)],
                          SetProp(SetProp(heap, f.result, key, rv), f.x.a, key, rv),
                          WithoutKey(contexts, f))

\* the value of a key validated: result[key], changed, finally popKey
ReturnObject ==
    /\ Returned("anObject")
    /\ LET f == Top
           key == f.v.keys[f.i + 1]
           value == GetProp(f.x, key, heap)
           g == [f EXCEPT !.i = @ + 1]
       IN IF LeftOut(rv, f.x, key, heap)
          THEN ObjectLoop(g, heap, WithoutKey(contexts, f))
          ELSE ObjectLoop([g EXCEPT !.changed = ObjectChanged(@, rv, value)],
                          SetProp(heap, f.result, key, rv),
                          WithoutKey(contexts, f))

\* (a bug: no finally, the key stays on the path when the value is rejected)
ThrowObjectKeepingKey ==
    /\ Thrown("anObject")
    /\ Throw(err, heap, contexts)

\* the value of a key rejected: finally popKey, and the Error goes on
ThrowObject ==
    /\ Thrown("anObject")
    /\ Throw(err, heap, WithoutKey(contexts, Top))

(* The calls of a program on a validator: validate and isValid *)

\* validator.validate(x, options): validate(x, options, makeContext())
Start ==
    /\ ctl = "idle"
    /\ \E name \in Validators, o \in Options :
         \E tm \in Gen(Named(name), MaxDepth) :
            LET in == Load(tm, <<>>)
            IN /\ heap' = in.heap
               /\ contexts' = makeContext(<<>>)
               /\ stack' = <<Frame(Named(name), in.val, o, 1)>>
               /\ call' = [validator |-> name, value |-> in.val, options |-> o,
                           method |-> "validate", path |-> <<>>]
    /\ ctl' = "call"
    /\ rv' = Undefined
    /\ err' = ""
    /\ outcome' = NoOutcome
    /\ prev' = NoOutcome
    /\ UNCHANGED other

\* a circularly linked list: a node whose next is the node itself
Circle == <<Cell("object", <<"value", "next">>, <<Num("1"), Ref(1)>>)>>

\* listValidator.validate(list, options) on a circularly linked list
StartCircular ==
    /\ ctl = "idle"
    /\ \E o \in Options :
          /\ stack' = <<Frame(listValidator, Ref(1), o, 1)>>
          /\ call' = [validator |-> "listValidator", value |-> Ref(1), options |-> o,
                      method |-> "validate", path |-> <<>>]
    /\ heap' = Circle
    /\ contexts' = makeContext(<<>>)
    /\ ctl' = "call"
    /\ rv' = Undefined
    /\ err' = ""
    /\ outcome' = NoOutcome
    /\ prev' = NoOutcome
    /\ UNCHANGED other

\* then validator.isValid(x, options) on the same value:
\* validate(x, options, makeContext())
Again ==
    /\ ctl = "done"
    /\ call.method = "validate"
    /\ contexts' = makeContext(contexts)
    /\ stack' = <<Frame(Named(call.validator), call.value, call.options, Len(contexts) + 1)>>
    /\ call' = [call EXCEPT !.method = "isValid"]
    /\ ctl' = "call"
    /\ rv' = Undefined
    /\ err' = ""
    /\ outcome' = NoOutcome
    /\ prev' = outcome
    /\ UNCHANGED other
    /\ heap' = heap

\* validate returns what the validate function returns, and throws what it throws
ValidateDone ==
    /\ ctl \in {"ret", "throw"}
    /\ stack = <<>>
    /\ call.method = "validate"
    /\ outcome' = IF ctl = "ret"
                  THEN [kind |-> "returned", value |-> rv, message |-> ""]
                  ELSE [kind |-> "raised", value |-> Undefined, message |-> err]
    /\ ctl' = "done"
    /\ rv' = Undefined
    /\ err' = ""
    /\ UNCHANGED <<heap, stack, contexts, call, prev, other>>

\* (a bug: no catch, isValid throws what the validate function throws)
IsValidDoneThrowing ==
    /\ ctl \in {"ret", "throw"}
    /\ stack = <<>>
    /\ call.method = "isValid"
    /\ outcome' = IF ctl = "ret"
                  THEN [kind |-> "returned", value |-> Bool("true"), message |-> ""]
                  ELSE [kind |-> "raised", value |-> Undefined, message |-> err]
    /\ ctl' = "done"
    /\ rv' = Undefined
    /\ err' = ""
    /\ UNCHANGED <<heap, stack, contexts, call, prev, other>>

\* isValid: try { validate(...); return true } catch { return false }
IsValidDone ==
    /\ ctl \in {"ret", "throw"}
    /\ stack = <<>>
    /\ call.method = "isValid"
    /\ outcome' = [kind |-> "returned",
                   value |-> IF ctl = "ret" THEN Bool("true") ELSE Bool("false"),
                   message |-> ""]
    /\ ctl' = "done"
    /\ rv' = Undefined
    /\ err' = ""
    /\ UNCHANGED <<heap, stack, contexts, call, prev, other>>

\* the program drops the value, the results and the contexts
Reset ==
    /\ ctl = "done"
    /\ other.ctl \in {"none", "done"}
    /\ heap' = <<>>
    /\ stack' = <<>>
    /\ contexts' = <<>>
    /\ ctl' = "idle"
    /\ rv' = Undefined
    /\ err' = ""
    /\ call' = NoCall
    /\ outcome' = NoOutcome
    /\ prev' = NoOutcome
    /\ other' = NoTask

Init ==
    /\ heap = <<>>
    /\ stack = <<>>
    /\ contexts = <<>>
    /\ ctl = "idle"
    /\ rv = Undefined
    /\ err = ""
    /\ call = NoCall
    /\ outcome = NoOutcome
    /\ prev = NoOutcome
    /\ other = NoTask

Next ==
    \/ Start
    \/ StartCircular
    \/ Again
    \/ ValidateDone
    \/ IsValidDone
    \/ Reset
    \/ CallPrimitive
    \/ CallStringUnion
    \/ CallCustom
    \/ CallFunction
    \/ CallAndReturns
    \/ CallOrNull
    \/ CallOrUndefined
    \/ CallOr
    \/ CatchOr
    \/ ReturnThrough
    \/ Propagate
    \/ CallArray
    \/ ReturnArray
    \/ ThrowArray
    \/ CallObject
    \/ ReturnObject
    \/ ThrowObject

Spec == Init /\ [][Next]_vars

\* the steps of a call that has started
Run ==
    \/ ValidateDone
    \/ IsValidDone
    \/ CallPrimitive
    \/ CallStringUnion
    \/ CallCustom
    \/ CallFunction
    \/ CallAndReturns
    \/ CallOrNull
    \/ CallOrUndefined
    \/ CallOr
    \/ CatchOr
    \/ ReturnThrough
    \/ Propagate
    \/ CallArray
    \/ ReturnArray
    \/ ThrowArray
    \/ CallObject
    \/ ReturnObject
    \/ ThrowObject

\* validate and isValid are synchronous: a call that can take a step takes it
FairSpec == Spec /\ WF_vars(Run)

(* The list example alone, on lists one node longer than the inputs above, *)
(* to check that its calls end                                             *)

\* listValidator.validate(list, options)
StartList ==
    /\ ctl = "idle"
    /\ \E o \in Options :
         \E tm \in Gen(listValidator, MaxDepth + 1) :
            LET in == Load(tm, <<>>)
            IN /\ heap' = in.heap
               /\ stack' = <<Frame(listValidator, in.val, o, 1)>>
               /\ call' = [validator |-> "listValidator", value |-> in.val,
                           options |-> o, method |-> "validate", path |-> <<>>]
    /\ contexts' = makeContext(<<>>)
    /\ ctl' = "call"
    /\ rv' = Undefined
    /\ err' = ""
    /\ outcome' = NoOutcome
    /\ prev' = NoOutcome
    /\ UNCHANGED other

ListNext ==
    \/ StartList
    \/ ValidateDone
    \/ Reset
    \/ CallPrimitive
    \/ CallOrNull
    \/ ReturnThrough
    \/ Propagate
    \/ CallObject
    \/ ReturnObject
    \/ ThrowObject

\* validate is synchronous: a call that can take a step takes it
ListSpec == Init /\ [][ListNext]_vars /\ WF_vars(Run)

(* A validation context alone, driven through its interface by a caller   *)
(* such as a validator made with makeValidator                             *)

\* the keys pushed: the empty string is a key an object can declare
PathKeys == {"", "a", "0"}

\* the messages context.fail is called with
FailMessages == {"expected a string, not undefined", "unexpected property \"foo\""}

\* const context = makeContext()
NewContext ==
    /\ contexts = <<>>
    /\ ctl = "idle"
    /\ contexts' = makeContext(contexts)
    /\ UNCHANGED <<heap, stack, ctl, rv, err, call, outcome, prev, other>>

\* context.path.pushKey(key)
PushKey ==
    /\ contexts # <<>>
    /\ ctl = "idle"
    /\ Len(contexts[1]) < MaxPath
    /\ \E key \in PathKeys : contexts' = [contexts EXCEPT ![1] = pushKey(@, key)]
    /\ UNCHANGED <<heap, stack, ctl, rv, err, call, outcome, prev, other>>

\* context.path.popKey()
PopKey ==
    /\ contexts # <<>>
    /\ ctl = "idle"
    /\ contexts' = [contexts EXCEPT ![1] = popKey(@)]
    /\ UNCHANGED <<heap, stack, ctl, rv, err, call, outcome, prev, other>>

\* try { context.fail(message) } catch (e) { err = e.message }
FailCaught ==
    /\ contexts # <<>>
    /\ ctl = "idle"
    /\ \E message \in FailMessages : err' = fail(contexts[1], message)
    /\ UNCHANGED <<heap, stack, contexts, ctl, rv, call, outcome, prev, other>>

ContextNext ==
    \/ NewContext
    \/ PushKey
    \/ PopKey
    \/ FailCaught

ContextSpec == Init /\ [][ContextNext]_vars

(* Two calls of validate on one validator whose steps interleave *)

\* the validators two calls are made on at once
ConcurrentValidators ==
    {"itemValidator", "listValidator", "aResponse", "aKind", "aFunction", "c"}

\* the values of the two calls
ConcurrentInputs(name) ==
    CASE name = "itemValidator" ->
            {ObjectTerm(<<"name", "subItems">>,
                        <<Atom(Str("A")),
                          ArrayTerm(<<ObjectTerm(<<"name", "value">>,
                                                 <<Atom(Str("A")), Atom(Null)>>)>>)>>),
             ObjectTerm(<<"name", "nextItem">>,
                        <<Atom(Str("A")),
                          ObjectTerm(<<"name", "foo">>,
                                     <<Atom(Str("A")), Atom(Str("bar"))>>)>>),
             ObjectTerm(<<"name", "subItems">>,
                        <<Atom(Str("A")),
                          ArrayTerm(<<ObjectTerm(<<"name", "value">>,
                                                 <<Atom(Str("A")), Atom(Num("1"))>>)>>)>>)}
      [] name = "listValidator" ->
            {ObjectTerm(<<"value", "next">>,
                        <<Atom(Num("1")),
                          ObjectTerm(<<"value", "next">>, <<Atom(Num("1")), Atom(Null)>>)>>),
             ObjectTerm(<<"value", "next">>,
                        <<Atom(Num("1")),
                          ObjectTerm(<<"value", "next">>, <<Atom(Str("x")), Atom(Null)>>)>>)}
      [] name = "aResponse" ->
            {ObjectTerm(<<"data">>, <<ArrayTerm(<<Atom(Str("A")), Atom(Str("B"))>>)>>),
             ObjectTerm(<<"data">>, <<ArrayTerm(<<Atom(Str("A")), Atom(Str("x"))>>)>>),
             ObjectTerm(<<"data", "meta">>, <<Atom(Null), Atom(Undefined)>>)}
      [] name = "aKind" -> {Atom(Str("A")), Atom(Str("x"))}
      [] name \in {"aFunction", "c"} -> {FunctionWith(1), Atom(Str("x"))}

\* the options of the two calls
ConcurrentOptions ==
    {[allowExtraProperties |-> Undefined], [allowExtraProperties |-> Bool("true")]}

\* the running call as it is kept while the other one runs
Suspended ==
    [stack |-> stack, ctl |-> ctl, rv |-> rv, err |-> err, call |-> call,
     outcome |-> outcome]

\* two tasks have called validator.validate(x1, o1) and validator.validate(x2, o2),
\* each with its own makeContext()
StartBoth ==
    /\ ctl = "idle"
    /\ \E name \in ConcurrentValidators :
         \E t1 \in ConcurrentInputs(name), t2 \in ConcurrentInputs(name) :
            \E o1 \in ConcurrentOptions, o2 \in ConcurrentOptions :
               LET in1 == Load(t1, <<>>)
                   in2 == Load(t2, in1.heap)
               IN /\ heap' = in2.heap
                  /\ stack' = <<Frame(Named(name), in1.val, o1, 1)>>
                  /\ call' = [validator |-> name, value |-> in1.val, options |-> o1,
                              method |-> "validate", path |-> <<>>]
                  /\ other' = [stack |-> <<Frame(Named(name), in2.val, o2, 2)>>,
                               ctl |-> "call", rv |-> Undefined, err |-> "",
                               call |-> [validator |-> name, value |-> in2.val,
                                         options |-> o2, method |-> "validate", path |-> <<>>],
                               outcome |-> NoOutcome]
    /\ contexts' = makeContext(makeContext(<<>>))
    /\ ctl' = "call"
    /\ rv' = Undefined
    /\ err' = ""
    /\ outcome' = NoOutcome
    /\ prev' = NoOutcome

\* the running call is suspended where it is and the other one goes on
Switch ==
    /\ ctl \in {"call", "ret", "throw", "done"}
    /\ other.ctl \in {"call", "ret", "throw"}
    /\ other' = Suspended
    /\ stack' = other.stack
    /\ ctl' = other.ctl
    /\ rv' = other.rv
    /\ err' = other.err
    /\ call' = other.call
    /\ outcome' = other.outcome
    /\ UNCHANGED <<heap, contexts, prev>>

ConcurrentNext ==
    \/ StartBoth
    \/ Switch
    \/ ValidateDone
    \/ Reset
    \/ CallPrimitive
    \/ CallStringUnion
    \/ CallCustom
    \/ CallFunction
    \/ CallAndReturns
    \/ CallOrNull
    \/ CallOrUndefined
    \/ CallOr
    \/ CatchOr
    \/ ReturnThrough
    \/ Propagate
    \/ CallArray
    \/ ReturnArray
    \/ ThrowArray
    \/ CallObject
    \/ ReturnObject
    \/ ThrowObject

ConcurrentSpec == Init /\ [][ConcurrentNext]_vars

(* Calls that pass validate a context of the caller, whose path holds keys *)

\* the validators called with a context of the caller
SuppliedValidators == {"itemValidator", "aResponse", "anOutcome"}

\* the paths that the context of the caller holds when it calls validate
SuppliedPaths == {<<"request">>, <<"request", "body">>}

\* validator.validate(x, options, context), the path of context holding P
StartSupplied ==
    /\ ctl = "idle"
    /\ \E name \in SuppliedValidators, o \in Options, P \in SuppliedPaths :
         \E tm \in Gen(Named(name), MaxDepth) :
            LET in == Load(tm, <<>>)
            IN /\ heap' = in.heap
               /\ contexts' = <<P>>
               /\ stack' = <<Frame(Named(name), in.val, o, 1)>>
               /\ call' = [validator |-> name, value |-> in.val, options |-> o,
                           method |-> "validate", path |-> P]
    /\ ctl' = "call"
    /\ rv' = Undefined
    /\ err' = ""
    /\ outcome' = NoOutcome
    /\ prev' = NoOutcome
    /\ UNCHANGED other

SuppliedNext ==
    \/ StartSupplied
    \/ ValidateDone
    \/ Reset
    \/ CallPrimitive
    \/ CallStringUnion
    \/ CallCustom
    \/ CallOrNull
    \/ CallOrUndefined
    \/ CallOr
    \/ CatchOr
    \/ ReturnThrough
    \/ Propagate
    \/ CallArray
    \/ ReturnArray
    \/ ThrowArray
    \/ CallObject
    \/ ReturnObject
    \/ ThrowObject

SuppliedSpec == Init /\ [][SuppliedNext]_vars

(* The validator counted, whose key is declared with the counting thunk,  *)
(* on arrays of objects, by validate and then by isValid                   *)

\* the arrays of up to MaxLen objects whose a is a string or a number
ThunkInputs ==
    {ArrayTerm(s) :
        s \in UNION {[1..n -> {ObjectTerm(<<"a">>, <<Atom(Str("A"))>>),
                               ObjectTerm(<<"a">>, <<Atom(Num("1"))>>)}] : n \in 0..MaxLen}}

\* const calls = []; counted.validate(x, options)
StartThunk ==
    /\ ctl = "idle"
    /\ \E o \in Options, tm \in ThunkInputs :
          LET in == Load(tm, <<Cell("array", <<>>, <<>>)>>)
          IN /\ heap' = in.heap
             /\ stack' = <<Frame(counted, in.val, o, 1)>>
             /\ call' = [validator |-> "counted", value |-> in.val, options |-> o,
                         method |-> "validate", path |-> <<>>]
    /\ contexts' = makeContext(<<>>)
    /\ ctl' = "call"
    /\ rv' = Undefined
    /\ err' = ""
    /\ outcome' = NoOutcome
    /\ prev' = NoOutcome
    /\ UNCHANGED other

ThunkNext ==
    \/ StartThunk
    \/ Again
    \/ ValidateDone
    \/ IsValidDone
    \/ Reset
    \/ CallPrimitive
    \/ CallArray
    \/ ReturnArray
    \/ ThrowArray
    \/ CallObject
    \/ ReturnObject
    \/ ThrowObject

ThunkSpec == Init /\ [][ThunkNext]_vars

(* Object validators on arrays *)

\* the values tried: every atom, arrays of strings and numbers, and objects
\* with the key 0
ArrayInputs ==
    Atoms
    \cup {ArrayTerm(s) : s \in UNION {[1..n -> {Atom(Str("A")), Atom(Num("1"))}] : n \in 1..MaxLen}}
    \cup {ObjectTerm(<<"0">>, <<Atom(Str("A"))>>), ObjectTerm(<<"foo">>, <<Atom(Str("bar"))>>)}

\* anEmpty.validate(x, options) and aFirst.validate(x, options)
StartOnArray ==
    /\ ctl = "idle"
    /\ \E name \in {"anEmpty", "aFirst"}, o \in Options, tm \in ArrayInputs :
          LET in == Load(tm, <<>>)
          IN /\ heap' = in.heap
             /\ stack' = <<Frame(Named(name), in.val, o, 1)>>
             /\ call' = [validator |-> name, value |-> in.val, options |-> o,
                         method |-> "validate", path |-> <<>>]
    /\ contexts' = makeContext(<<>>)
    /\ ctl' = "call"
    /\ rv' = Undefined
    /\ err' = ""
    /\ outcome' = NoOutcome
    /\ prev' = NoOutcome
    /\ UNCHANGED other

ArrayNext ==
    \/ StartOnArray
    \/ ValidateDone
    \/ Reset
    \/ CallPrimitive
    \/ CallObject
    \/ ReturnObject
    \/ ThrowObject

ArraySpec == Init /\ [][ArrayNext]_vars

(* Calls made one after the other on one validator, by validate and by   *)
(* isValid, each with a context of its own                                 *)

\* the values of the calls: for each validator one that it accepts and one
\* that it rejects, two levels down and in the second alternative
SequenceInputs(name) ==
    CASE name = "itemValidator" ->
            {ObjectTerm(<<"name", "subItems">>,
                        <<Atom(Str("A")),
                          ArrayTerm(<<ObjectTerm(<<"name", "value">>,
                                                 <<Atom(Str("A")), Atom(Null)>>)>>)>>),
             ObjectTerm(<<"name", "subItems">>,
                        <<Atom(Str("A")),
                          ArrayTerm(<<ObjectTerm(<<"name", "value", "foo">>,
                                                 <<Atom(Str("A")), Atom(Num("1")),
                                                   Atom(Str("bar"))>>)>>)>>)}
      [] name = "anOutcome" ->
            {ObjectTerm(<<"kind", "error">>, <<Atom(Str("Error")), Atom(Str("A"))>>),
             ObjectTerm(<<"kind", "error">>, <<Atom(Str("Error")), Atom(Num("1"))>>)}

\* validator.validate(x, options) or validator.isValid(x, options), the
\* first call on the validator or one after the calls before: both call
\* validate(x, options, makeContext())
StartNext ==
    /\ ctl \in {"idle", "done"}
    /\ Len(contexts) < MaxCalls
    /\ \E name \in {"itemValidator", "anOutcome"}, o \in ConcurrentOptions,
          method \in {"validate", "isValid"} :
          /\ ctl = "done" => name = call.validator
          /\ \E tm \in SequenceInputs(name) :
                LET in == Load(tm, heap)
                IN /\ heap' = in.heap
                   /\ stack' = <<Frame(Named(name), in.val, o, Len(makeContext(contexts)))>>
                   /\ call' = [validator |-> name, value |-> in.val, options |-> o,
                               method |-> method, path |-> <<>>]
    /\ contexts' = makeContext(contexts)
    /\ ctl' = "call"
    /\ rv' = Undefined
    /\ err' = ""
    /\ outcome' = NoOutcome
    /\ prev' = outcome
    /\ UNCHANGED other

SequenceNext ==
    \/ StartNext
    \/ ValidateDone
    \/ IsValidDone
    \/ Reset
    \/ CallPrimitive
    \/ CallStringUnion
    \/ CallOrUndefined
    \/ CallOr
    \/ CatchOr
    \/ ReturnThrough
    \/ Propagate
    \/ CallArray
    \/ ReturnArray
    \/ ThrowArray
    \/ CallObject
    \/ ReturnObject
    \/ ThrowObject

SequenceSpec == Init /\ [][SequenceNext]_vars

(* The validators as objects of the program: V.orNull, V.orUndefined and *)
(* V.array are getters of the object that makeValidator returns           *)

Getters == {"orNull", "orUndefined", "array"}

\* const aString = makeValidator(...): a validator made when the module loads
Base == Cell("validator", <<>>, <<>>)

\* V[getter]: get orNull(), get orUndefined() and get array() each
\* return makeValidator(...), a new object, whose validate function closes
\* over V
Get(h, getter, V) == Append(h, Cell("validator", <<getter>>, <<V>>))

\* the program evaluates V.orNull, V.orUndefined or V.array, for V one of
\* the validators it has
Access ==
    /\ ctl = "idle"
    /\ LET h == IF heap = <<>> THEN <<Base>> ELSE heap
       IN /\ Len(h) < MaxValidators
          /\ \E getter \in Getters, v \in 1..Len(h) :
                /\ heap' = Get(h, getter, Ref(v))
                /\ call' = [validator |-> "", value |-> Ref(v), options |-> Undefined,
                            method |-> getter, path |-> <<>>]
                /\ outcome' = [kind |-> "returned", value |-> Ref(Len(h) + 1),
                               message |-> ""]
    /\ ctl' = "done"
    /\ prev' = NoOutcome
    /\ UNCHANGED <<stack, contexts, rv, err, other>>

\* then it evaluates the same getter of the same validator again
AccessAgain ==
    /\ ctl = "done"
    /\ call.method \in Getters
    /\ Len(heap) < MaxValidators
    /\ heap' = Get(heap, call.method, call.value)
    /\ outcome' = [kind |-> "returned", value |-> Ref(Len(heap) + 1), message |-> ""]
    /\ prev' = outcome
    /\ UNCHANGED <<stack, contexts, ctl, rv, err, call, other>>

\* and goes on, keeping the validators it has
Keep ==
    /\ ctl = "done"
    /\ call.method \in Getters
    /\ ctl' = "idle"
    /\ call' = NoCall
    /\ outcome' = NoOutcome
    /\ prev' = NoOutcome
    /\ UNCHANGED <<heap, stack, contexts, rv, err, other>>

GetterNext ==
    \/ Access
    \/ AccessAgain
    \/ Keep
    \/ Reset

GetterSpec == Init /\ [][GetterNext]_vars

----------------------------------------------------------------------------
(* What the claims are stated with *)

\* the key or index a container frame is validating the value of
CurrentKey(f) == IF f.v.k = "anObject" THEN f.v.keys[f.i + 1] ELSE IndexKey(f.i)

\* the keys and indices that lead from the value of the first frame of stk
\* to the value its last container frame is validating
Location(stk) ==
    LET cs == SelectSeq(stk, LAMBDA f : f.v.k \in {"anObject", "array"})
    IN [i \in 1..Len(cs) |-> CurrentKey(cs[i])]

RECURSIVE FollowFrom(_, _, _, _)
FollowFrom(x, loc, i, h) ==
    IF i > Len(loc) THEN x ELSE FollowFrom(GetProp(x, loc[i], h), loc, i + 1, h)

\* the value that the keys and indices loc lead to from x
Follow(x, loc, h) == FollowFrom(x, loc, 1, h)

\* this step is the return of the frame on top, which runs code kind
Returns(kind) ==
    /\ stack # <<>>
    /\ Top.v.k = kind
    /\ ctl \in {"call", "ret"}
    /\ ctl' = "ret"
    /\ stack' = Pop

\* this step is a call of context.fail by the frame on top
Fails ==
    /\ stack # <<>>
    /\ ctl \in {"call", "ret"}
    /\ ctl' = "throw"
    /\ err' # RangeError

\* the address of the container the frame on top builds
Built == IF ctl = "call" THEN Len(heap) + 1 ELSE Top.result

\* the top-level call validate has returned
Validated == ctl = "done" /\ call.method = "validate" /\ outcome.kind = "returned"

----------------------------------------------------------------------------
(* C1: when an object validator returns and the value it validated for     *)
(* every declared key is === the input's value for that key, and the input *)
(* has no undeclared key, it returns the input object itself.              *)
C1_ObjectIdentity ==
    [][(/\ Returns("anObject")
        /\ ExtraProperties(Top.v, Top.x, heap) = <<>>
        /\ \A i \in 1..Len(Top.v.keys) :
              LET K == Top.v.keys[i]
              IN HasOwn(Ref(Built), K, heap')
                    => StrictEq(GetProp(Ref(Built), K, heap'), GetProp(Top.x, K, heap)))
       => rv' = Top.x]_vars

\* validate returned the input object, which holds an array
C1_Witness ==
    /\ Validated
    /\ Named(call.validator).k = "anObject"
    /\ outcome.value = call.value
    /\ \E i \in 1..Len(heap[call.value.a].vals) : IsArray(heap[call.value.a].vals[i], heap)

(* C2: when an array validator returns and the value it validated for      *)
(* every element is === the element, it returns the input array itself,    *)
(* the empty array included.                                               *)
C2_ArrayIdentity ==
    [][(/\ Returns("array")
        /\ \A i \in 1..Length(Top.x, heap) :
              StrictEq(heap'[Built].vals[i], Element(Top.x, i - 1, heap)))
       => rv' = Top.x]_vars

\* validate returned the input array, which has elements
C2_Witness ==
    /\ Validated
    /\ IsArray(call.value, heap)
    /\ outcome.value = call.value
    /\ Length(call.value, heap) > 0

\* the frame on top is an object validator resuming after its last declared key
LastKeyValidated ==
    /\ Returned("anObject")
    /\ Top.i + 1 = Len(Top.v.keys)

C4_ExtraKeysFail ==
    [][(/\ LastKeyValidated
        /\ ExtraProperties(Top.v, Top.x, heap) # <<>>
        /\ Top.options.allowExtraProperties \in {Undefined, Bool("false")})
       => /\ ctl' = "throw"
          /\ stack' = Pop
          /\ \E i \in 1..Len(keys(Top.x, heap)) :
                LET key == keys(Top.x, heap)[i]
                IN /\ ~Declared(Top.v, key)
                   /\ err' = fail(Location(Pop), "unexpected property \"" \o key \o "\"")]_vars

\* validate, given no options, threw for an extra key of an element of subItems
C4_Witness ==
    /\ ctl = "done"
    /\ call.options.allowExtraProperties = Undefined
    /\ outcome.kind = "raised"
    /\ outcome.message = "Validation error for key 'subItems.0': unexpected property \"foo\""

(* C5: with allowExtraProperties true every frame has the options of the   *)
(* top-level call; an object validator whose declared keys all validated   *)
(* returns, and the object it returns has every undeclared key of the      *)
(* input with the input's value.                                           *)
C5_ExtraKeysKept ==
    [][/\ \A i \in 1..Len(stack') : stack'[i].options = call'.options
       /\ (LastKeyValidated /\ Top.options.allowExtraProperties = Bool("true"))
            => (ctl' = "ret" /\ stack' = Pop)
       /\ Returns("anObject") =>
            \A i \in 1..Len(keys(Top.x, heap)) :
               LET key == keys(Top.x, heap)[i]
               IN ~Declared(Top.v, key)
                     => /\ HasOwn(rv', key, heap')
                        /\ GetProp(rv', key, heap') = GetProp(Top.x, key, heap)]_vars

\* validate returned a value whose subItems.0 and nextItem hold the extra key
C5_Witness ==
    /\ Validated
    /\ call.options.allowExtraProperties = Bool("true")
    /\ \/ GetProp(Follow(outcome.value, <<"subItems", "0">>, heap), "foo", heap) = Str("bar")
       \/ GetProp(Follow(outcome.value, <<"nextItem">>, heap), "foo", heap) = Str("bar")

\* what the messages of the validators say they expected
Expectations ==
    {"a string", "a number", "a boolean", "an array", "an object", "a function",
     "a string of hex digits", "\"A\" | \"B\"", "\"Success\"", "\"Error\""}

\* what typeName can give
TypeNames ==
    {"null", "undefined", "an array", "an object", "a string", "a number",
     "a boolean", "a function"}

\* the messages validators call context.fail with
Complaints ==
    {"expected " \o e \o ", not " \o t : e \in Expectations, t \in TypeNames}
    \cup {"unexpected property \"foo\""}

RECURSIVE RejectsUndefined(_)
\* the validator is not one that accepts undefined: no orUndefined leads it
\* or one of its alternatives
RejectsUndefined(V) ==
    CASE V.k = "orUndefined" -> FALSE
      [] V.k = "orNull" -> RejectsUndefined(V.subs[1])
      [] V.k = "or" -> RejectsUndefined(V.subs[1]) /\ RejectsUndefined(V.subs[2])
      [] OTHER -> TRUE

\* declared key number i of the object frame f is required and f.x does not own it
Missing(f, i) ==
    /\ RejectsUndefined(Entry(f.v, i))
    /\ ~HasOwn(f.x, f.v.keys[i], heap)

C7_ErrorPath ==
    [][Fails =>
         LET loc == Location(Pop)
         IN /\ contexts'[Top.context] = loc
            /\ Follow(call.value, loc, heap) = Top.x
            /\ \E m \in Complaints : err' = fail(loc, m)
            /\ loc # <<>> =>
                 \E m \in Complaints :
                    err' = "Validation error for key '" \o current(loc) \o "': " \o m]_vars

\* validate threw three levels deep, through an array and through thunks
C7_Witness ==
    /\ ctl = "done"
    /\ outcome.kind = "raised"
    /\ outcome.message \in
          {"Validation error for key 'subItems.0.value': expected a string, not null",
           "Validation error for key 'nextItem.nextItem.name': expected a string, not a number"}

(* C8: isValid returns true or false and never throws, and it returns true *)
(* exactly when validate, called before on the same validator, value and   *)
(* options with a context of its own, returned.                            *)
C8_IsValidAgrees ==
    (ctl = "done" /\ call.method = "isValid") =>
        /\ outcome.kind = "returned"
        /\ outcome.value \in {Bool("true"), Bool("false")}
        /\ outcome.value = Bool("true") <=> prev.kind = "returned"

\* isValid returned false where validate threw inside a container
C8_Witness ==
    /\ ctl = "done"
    /\ call.method = "isValid"
    /\ outcome.value = Bool("false")
    /\ prev.kind = "raised"
    /\ prev.message = "Validation error for key 'subItems.0.value': expected a string, not null"

\* the frame on top calls validate of V on its own value, options and context
Tries(V) ==
    /\ ctl' = "call"
    /\ Len(stack') = Len(stack) + 1
    /\ stack'[Len(stack')] = Frame(V, Top.x, Top.options, Top.context)
    /\ heap' = heap

(* C9: A.or(B) calls A first; what A returns is returned at once, without  *)
(* a call of B; when A throws, B is called on the same value, and what B   *)
(* returns is returned; the union throws only after B threw.  For the      *)
(* chain aString.or(aBoolean).or(aNumber.array): it returns exactly on     *)
(* strings, booleans and arrays of numbers.                                *)
C9_UnionOrder ==
    [][/\ Running("or") => Tries(Top.v.subs[1])
       /\ Returned("or") => (ctl' = "ret" /\ rv' = rv /\ stack' = Pop /\ heap' = heap)
       /\ (Thrown("or") /\ Top.i = 0) => Tries(Top.v.subs[2])
       /\ (Thrown("or") /\ ctl' = "throw") => Top.i = 1
       /\ (ctl' = "done" /\ call'.validator = "union" /\ call'.method = "validate")
            => LET x == call'.value
               IN outcome'.kind = "returned"
                     <=> \/ x.t \in {"string", "boolean"}
                         \/ /\ IsArray(x, heap')
                            /\ \A i \in 1..Length(x, heap') : heap'[x.a].vals[i].t = "number"]_vars

\* the second alternative returned to a union whose first alternative threw
C9_Witness ==
    /\ Returned("or")
    /\ Top.i = 1
    /\ Top.v.subs[1].k = "or"

(* C10: when both alternatives threw, the union throws the Error of the    *)
(* second, unchanged; the Error of the first is dropped, and the second    *)
(* alternative starts with the path the union was called with.  For the    *)
(* chain aString.or(aBoolean).or(aNumber.array) on a value that is no      *)
(* array the message is that of aNumber.array.                             *)
C10_LastFailure ==
    [][/\ (Thrown("or") /\ Top.i = 1) => (ctl' = "throw" /\ err' = err /\ stack' = Pop)
       /\ (Thrown("or") /\ Top.i = 0)
            => /\ err' = ""
               /\ contexts' = contexts
               /\ contexts[Top.context] = Location(Pop)
       /\ (ctl' = "done" /\ call'.validator = "union" /\ outcome'.kind = "raised"
             /\ ~IsArray(call'.value, heap'))
            => outcome'.message
                  = "Validation error: expected an array, not " \o typeName(call'.value, heap')]_vars

\* validate threw the Error of the second object validator of anOutcome,
\* after the first one had failed on its key kind
C10_Witness ==
    /\ ctl = "done"
    /\ call.validator = "anOutcome"
    /\ GetProp(call.value, "kind", heap) = Str("Error")
    /\ outcome.message = "Validation error for key 'error': expected a string, not undefined"

(* C11: aString, aNumber and aBoolean accept a value exactly when it is a   *)
(* string, a number, a boolean: validate then returns the value itself and  *)
(* isValid returns true; otherwise validate throws 'expected a <type>, not  *)
(* <typeName(value)>' and isValid returns false.                            *)
C11_Primitives ==
    [][/\ Running("primitive") =>
            IF Top.x.t = Top.v.arg
            THEN ctl' = "ret" /\ stack' = Pop /\ rv' = Top.x /\ heap' = heap
            ELSE /\ ctl' = "throw"
                 /\ stack' = Pop
                 /\ err' = fail(Location(Pop),
                                "expected a " \o Top.v.arg \o ", not " \o typeName(Top.x, heap))
       /\ (ctl' = "done" /\ call.validator \in {"aString", "aNumber", "aBoolean"})
            => LET type == Named(call.validator).arg
                   accepts == call.value.t = type
               IN IF call.method = "isValid"
                  THEN outcome'.value = (IF accepts THEN Bool("true") ELSE Bool("false"))
                  ELSE IF accepts
                  THEN outcome'.kind = "returned" /\ outcome'.value = call.value
                  ELSE /\ outcome'.kind = "raised"
                       /\ outcome'.message = "Validation error: expected a " \o type
                                                \o ", not " \o typeName(call.value, heap)]_vars

\* aNumber returned the number it was given, then isValid returned true
C11_Witness ==
    /\ ctl = "done"
    /\ call.validator = "aNumber"
    /\ call.method = "isValid"
    /\ call.value = Num("1")
    /\ prev.kind = "returned"
    /\ prev.value = Num("1")
    /\ outcome.value = Bool("true")

(* C12: aStringUnion(v1..vn), and aStringLiteral(v) as aStringUnion(v),     *)
(* returns its argument when it is one of the listed strings, and throws    *)
(* 'expected "v1" | "v2" | ..., not <typeName(value)>' for every other      *)
(* value, a string that is not listed included.                             *)
C12_StringUnion ==
    [][/\ Running("aStringUnion") =>
            IF \E i \in 1..Len(Top.v.values) : Top.x = Str(Top.v.values[i])
            THEN ctl' = "ret" /\ stack' = Pop /\ rv' = Top.x /\ heap' = heap
            ELSE /\ ctl' = "throw"
                 /\ stack' = Pop
                 /\ err' = fail(Location(Pop),
                                "expected " \o ExpectedType(Top.v.values, 1) \o ", not "
                                   \o typeName(Top.x, heap))
       /\ (ctl' = "done" /\ call.validator = "aKind" /\ call.method = "validate")
            => IF call.value \in {Str("A"), Str("B"), Undefined}
               THEN outcome'.kind = "returned" /\ outcome'.value = call.value
               ELSE /\ outcome'.kind = "raised"
                    /\ outcome'.message = "Validation error: expected \"A\" | \"B\", not "
                                             \o typeName(call.value, heap)
       /\ aStringLiteral("Success") = aStringUnion(<<"Success">>)]_vars

\* a string that is not listed was rejected
C12_Witness ==
    /\ ctl = "done"
    /\ call.validator = "aKind"
    /\ call.value = Str("x")
    /\ outcome.message = "Validation error: expected \"A\" | \"B\", not a string"

\* the frame on top calls the validate function of validator V on its own
\* arguments in this step
Delegates(V) ==
    /\ ctl' = "call"
    /\ stack' = Append(stack, Frame(V, Top.x, Top.options, Top.context))
    /\ contexts' = contexts
    /\ heap' = heap

\* the call the frame on top makes in this step is one the stack cannot hold
Overflows ==
    /\ Len(stack) >= StackLimit
    /\ ctl' = "throw"
    /\ err' = RangeError
    /\ stack' = stack

\* the frame on top hands on, unchanged, what its callee returned or threw
HandsOn ==
    /\ stack' = Pop
    /\ contexts' = contexts
    /\ heap' = heap
    /\ IF ctl = "ret" THEN ctl' = "ret" /\ rv' = rv ELSE ctl' = "throw" /\ err' = err

(* C13: V.orNull returns null for null without calling V, and for every     *)
(* other value, undefined included, calls V on it (unless the stack is      *)
(* full) and returns or throws what V does; V.orUndefined does the same     *)
(* with undefined; and                                                      *)
(* V.orNull.orUndefined throws neither for null nor for undefined.          *)
C13_NullableOptional ==
    [][/\ Running("orNull") =>
            IF Top.x = Null
            THEN ctl' = "ret" /\ rv' = Null /\ stack' = Pop
            ELSE Delegates(Top.v.subs[1]) \/ Overflows
       /\ Running("orUndefined") =>
            IF Top.x = Undefined
            THEN ctl' = "ret" /\ rv' = Undefined /\ stack' = Pop
            ELSE Delegates(Top.v.subs[1]) \/ Overflows
       /\ (stack # <<>> /\ ctl \in {"ret", "throw"} /\ Top.v.k \in {"orNull", "orUndefined"})
            => HandsOn
       /\ (Thrown("orUndefined") /\ Top.v.subs[1].k = "orNull")
            => Top.x \notin {Null, Undefined}]_vars

\* aString.orNull.orUndefined was called on null, and its orNull returned null
C13_Witness ==
    /\ Returned("orUndefined")
    /\ Top.v = orUndefined(orNull(aString))
    /\ Top.x = Null
    /\ rv = Null

(* C15: aFunction returns its argument, in one step that calls nothing and *)
(* builds nothing, for every function whatever parameters it declares, and *)
(* throws 'expected a function, not <typeName(value)>' for every value     *)
(* that is not a function.                                                  *)
C15_AnyFunction ==
    [][/\ Running("aFunction") =>
            IF Top.x.t = "function"
            THEN ctl' = "ret" /\ rv' = Top.x /\ stack' = Pop /\ heap' = heap
            ELSE /\ ctl' = "throw"
                 /\ stack' = Pop
                 /\ err' = fail(Location(Pop),
                                "expected a function, not " \o typeName(Top.x, heap))
       /\ (ctl' = "done" /\ call.validator = "aFunction" /\ call.method = "validate")
            => IF call.value.t = "function"
               THEN outcome'.kind = "returned" /\ outcome'.value = call.value
               ELSE outcome'.kind = "raised"]_vars

\* aFunction returned the function of two parameters it was given
C15_Witness ==
    /\ Validated
    /\ call.validator = "aFunction"
    /\ call.value.t = "function"
    /\ ParameterCount(call.value, heap) = 2
    /\ outcome.value = call.value

(* C14: a validator built with thatAccepts(V1, ..., Vn), with or without   *)
(* andReturns, accepts a function exactly when it declares n parameters,   *)
(* and throws for a function that declares any other number.               *)
C14_ArityChecked ==
    (/\ Validated \/ (ctl = "done" /\ call.method = "validate" /\ outcome.kind = "raised")
     /\ call.validator \in {"thatAccepts", "c", "d"}
     /\ call.value.t = "function")
    => LET n == IF call.validator = "d" THEN 2 ELSE 1
       IN outcome.kind = "returned" <=> ParameterCount(call.value, heap) = n

(* C16: every value that thatAccepts(V).andReturns(R) accepts is a value   *)
(* aFunction accepts, that is a function: the validator throws for         *)
(* strings, numbers, objects, null and undefined.                          *)
C16_AndReturnsNarrows ==
    (Validated /\ call.validator \in {"c", "d"}) => call.value.t = "function"

\* the top-level call is on a list node whose next is the node itself
Circular ==
    /\ call.validator = "listValidator"
    /\ call.value.t = "object"
    /\ GetProp(call.value, "next", heap) = call.value

(* C18: validating a circularly linked list with the list validator, no    *)
(* validation of the node returns and context.fail is never called; each   *)
(* validation of the node is one call deeper than the one before with a    *)
(* path one key longer, and only the exhaustion of the stack ends it: the  *)
(* call throws the engine's RangeError.                                     *)
C18_NoCycleDetection ==
    [][Circular =>
         /\ ~Returns("anObject")
         /\ ~Fails
         /\ Running("anObject") =>
               /\ Top.x = call.value
               /\ contexts[Top.context] = [j \in 1..((Len(stack) - 1) \div 2) |-> "next"]
         /\ (ctl # "throw" /\ ctl' = "throw") => Len(stack) >= StackLimit
         /\ (ctl' = "done" /\ call.method = "validate")
               => outcome'.kind = "raised" /\ outcome'.message = RangeError]_vars

\* the validation of the circular list has filled the stack
C18_Witness ==
    /\ Circular
    /\ Len(stack) = StackLimit
    /\ ctl = "call"
    /\ Len(contexts[Top.context]) >= (StackLimit - 1) \div 2

\* n times the key next
Nexts(n) == [j \in 1..n |-> "next"]

\* y is an object with a number as value
Shaped(y, h) == y.t = "object" /\ GetProp(y, "value", h).t = "number"

\* y has a key that the list validator does not declare and o does not allow
Unexpected(y, h, o) ==
    /\ ExtraProperties(listValidator, y, h) # <<>>
    /\ o.allowExtraProperties # Bool("true")

RECURSIVE WellFormed(_, _, _)
\* x is a list: every node has a number as value, the last has null as next
WellFormed(x, h, o) ==
    /\ Shaped(x, h)
    /\ ~Unexpected(x, h, o)
    /\ \/ GetProp(x, "next", h) = Null
       \/ WellFormed(GetProp(x, "next", h), h, o)

C20_FailFormat ==
    [][(contexts # <<>> /\ contexts' = contexts /\ err' # err)
       => \E message \in FailMessages :
             err' = IF contexts[1] = <<>>
                    THEN "Validation error: " \o message
                    ELSE "Validation error for key '" \o JoinFrom(contexts[1], 1)
                            \o "': " \o message]_vars

RECURSIVE Complaint(_, _, _, _, _), ElementsComplaint(_, _, _, _, _, _),
          KeysComplaint(_, _, _, _, _, _)
\* what validate of V, called alone on x with options o and path loc, does:
\* the message of the Error it throws, "" if it returns
Complaint(V, x, o, loc, h) ==
    LET not == ", not " \o typeName(x, h)
    IN CASE V.k = "primitive" ->
               IF x.t = V.arg THEN "" ELSE fail(loc, "expected a " \o V.arg \o not)
         [] V.k = "aStringUnion" ->
               IF \E i \in 1..Len(V.values) : x = Str(V.values[i]) THEN ""
               ELSE fail(loc, "expected " \o ExpectedType(V.values, 1) \o not)
         [] V.k = "custom" ->
               IF x.t = "string" /\ x.v \in HexStrings THEN ""
               ELSE fail(loc, "expected a string of hex digits" \o not)
         [] V.k = "aFunction" ->
               IF x.t = "function" THEN "" ELSE fail(loc, "expected a function" \o not)
         [] V.k = "andReturns" -> ""
         [] V.k = "orNull" ->
               IF x = Null THEN "" ELSE Complaint(V.subs[1], x, o, loc, h)
         [] V.k = "orUndefined" ->
               IF x = Undefined THEN "" ELSE Complaint(V.subs[1], x, o, loc, h)
         [] V.k = "or" ->
               IF Complaint(V.subs[1], x, o, loc, h) = "" THEN ""
               ELSE Complaint(V.subs[2], x, o, loc, h)
         [] V.k = "array" ->
               IF ~IsArray(x, h) THEN fail(loc, "expected an array" \o not)
               ELSE ElementsComplaint(V, x, o, loc, h, 0)
         [] V.k = "anObject" ->
               IF x.t # "object" THEN fail(loc, "expected an object" \o not)
               ELSE KeysComplaint(V, x, o, loc, h, 1)
\* the first complaint about an element from index i on
ElementsComplaint(V, x, o, loc, h, i) ==
    IF i >= Length(x, h) THEN ""
    ELSE LET m == Complaint(V.subs[1], Element(x, i, h), o, Append(loc, IndexKey(i)), h)
         IN IF m # "" THEN m ELSE ElementsComplaint(V, x, o, loc, h, i + 1)
\* the first complaint about a declared key from the i-th on, or else about
\* an extra key
KeysComplaint(V, x, o, loc, h, i) ==
    IF i > Len(V.keys)
    THEN LET extra == ExtraProperties(V, x, h)
         IN IF extra # <<>> /\ o.allowExtraProperties # Bool("true")
            THEN fail(loc, "unexpected property \"" \o extra[1] \o "\"")
            ELSE ""
    ELSE LET m == Complaint(Entry(V, i), GetProp(x, V.keys[i], h), o,
                            Append(loc, V.keys[i]), h)
         IN IF m # "" THEN m ELSE KeysComplaint(V, x, o, loc, h, i + 1)

RECURSIVE Tree(_, _)
\* the value x with every object and array replaced by its keys and their values
Tree(x, h) ==
    IF x.t = "object"
    THEN [props |-> {<<keys(x, h)[i], Tree(h[x.a].vals[i], h)>> : i \in 1..Len(keys(x, h))}]
    ELSE [props |-> {<<"", x>>}]

RECURSIVE Result(_, _, _, _)
\* what validate of V, called alone on a value x that it accepts, returns
Result(V, x, o, h) ==
    CASE V.k \in {"primitive", "aStringUnion", "aFunction", "andReturns"} -> Tree(x, h)
      [] V.k = "custom" -> [props |-> {<<"digits", Tree(x, h)>>}]
      [] V.k = "orNull" -> IF x = Null THEN Tree(Null, h) ELSE Result(V.subs[1], x, o, h)
      [] V.k = "orUndefined" ->
            IF x = Undefined THEN Tree(Undefined, h) ELSE Result(V.subs[1], x, o, h)
      [] V.k = "or" ->
            IF Complaint(V.subs[1], x, o, <<>>, h) = ""
            THEN Result(V.subs[1], x, o, h)
            ELSE Result(V.subs[2], x, o, h)
      [] V.k = "array" ->
            [props |-> {<<IndexKey(i), Result(V.subs[1], Element(x, i, h), o, h)>> :
                           i \in 0..(Length(x, h) - 1)}]
      [] V.k = "anObject" ->
            LET kept == {i \in 1..Len(V.keys) :
                            \/ HasOwn(x, V.keys[i], h)
                            \/ Result(Entry(V, i), GetProp(x, V.keys[i], h), o, h)
                                  # Tree(Undefined, h)}
                extra == ExtraProperties(V, x, h)
            IN [props |-> {<<V.keys[i], Result(Entry(V, i), GetProp(x, V.keys[i], h), o, h)>> :
                              i \in kept}
                          \cup {<<extra[i], Tree(GetProp(x, extra[i], h), h)>> :
                                  i \in 1..Len(extra)}]

\* the call task, which is done, gave what it gives when run alone
AsAlone(task) ==
    LET c == task.call
        m == Complaint(Named(c.validator), c.value, c.options, <<>>, heap)
    IN IF m = ""
       THEN /\ task.outcome.kind = "returned"
            /\ Tree(task.outcome.value, heap) = Result(Named(c.validator), c.value, c.options, heap)
       ELSE /\ task.outcome.kind = "raised"
            /\ task.outcome.message = m

\* the contexts the frames of a stack hold
ContextsOf(stk) == {stk[i].context : i \in 1..Len(stk)}

(* C19: of two calls of validate on one validator whose steps interleave   *)
(* in any way, each has one context that the other does not have, the path *)
(* of a call that is calling is the path to the value it is validating,    *)
(* and each call returns or throws what it does when run alone.            *)
C19_Concurrent ==
    /\ Cardinality(ContextsOf(stack)) <= 1
    /\ Cardinality(ContextsOf(other.stack)) <= 1
    /\ ContextsOf(stack) \cap ContextsOf(other.stack) = {}
    /\ ctl = "call" => contexts[Top.context] = Location(Pop)
    /\ other.ctl = "call" =>
          LET stk == other.stack
          IN contexts[stk[Len(stk)].context] = Location(SubSeq(stk, 1, Len(stk) - 1))
    /\ (ctl = "done" /\ call.method = "validate" /\ ~Circular) => AsAlone(Suspended)
    /\ other.ctl = "done" => AsAlone(other)

\* both calls are under way, each at a place of its own in its value
C19_Witness ==
    /\ ctl \in {"call", "ret", "throw"}
    /\ other.ctl \in {"call", "ret", "throw"}
    /\ contexts[1] # <<>>
    /\ contexts[2] # <<>>
    /\ contexts[1] # contexts[2]

----------------------------------------------------------------------------
\* the container frames that have pushed their key or index on the path
Pushed == Location(IF ctl = "call" THEN Pop ELSE stack)

(* C21: in a call validate(v, options, context) made with a context of the *)
(* caller whose path holds P, the path is always P followed by one key or  *)
(* index for each object and array being validated, so the segments beyond *)
(* P are as many as the nesting depth, and the path is P again when the    *)
(* call has returned and when it has raised.                               *)
C21_PathPairing ==
    /\ ctl \in {"call", "ret", "throw"} => contexts[1] = call.path \o Pushed
    /\ ctl \in {"ret", "throw"} /\ stack = <<>> => contexts[1] = call.path
    /\ ctl = "done" => contexts[1] = call.path

\* a call with a path of two keys has raised two levels below an array
C21_Witness ==
    /\ ctl = "done"
    /\ outcome.kind = "raised"
    /\ call.path = <<"request", "body">>
    /\ contexts[1] = call.path
    /\ outcome.message =
          "Validation error for key 'request.body.subItems.0.value': expected a string, not null"

(* C22: every access to V.orNull yields the same validator as the access   *)
(* before it, and likewise V.orUndefined and V.array: the derived          *)
(* validator is built at most once for each V.                             *)
C22_GettersStable ==
    ctl = "done" /\ call.method \in Getters /\ prev.kind = "returned"
        => outcome.value = prev.value

(* C23: when an object validator returns with allowExtraProperties true on *)
(* an input that has an undeclared key, it returns the object it built,    *)
(* which is not the input, even when no declared key's value changed.      *)
C23_ExtrasCountAsChange ==
    [][(/\ Returns("anObject")
        /\ Top.options.allowExtraProperties = Bool("true")
        /\ ExtraProperties(Top.v, Top.x, heap) # <<>>)
       => (rv' = Ref(Built) /\ rv' # Top.x)]_vars

\* the frame on top, an array validator, calls the validator of its elements
CallsElement ==
    /\ stack # <<>>
    /\ Top.v.k = "array"
    /\ ctl \in {"call", "ret"}
    /\ ctl' = "call"
    /\ Len(stack') = Len(stack) + 1

(* C24: when an array validator returns and the value it validated for     *)
(* some element is not === the element, it returns a new array of the same *)
(* length whose i-th entry is what the element validator returns for the   *)
(* i-th element; it validates the elements in increasing index order, one  *)
(* call each; and when an element is rejected the array validator throws   *)
(* that Error on, every element before having been accepted, so the Error  *)
(* names the lowest failing index.                                         *)
C24_ArrayRebuild ==
    [][/\ (/\ Returns("array")
           /\ \E i \in 1..Length(Top.x, heap) :
                 ~StrictEq(heap'[Built].vals[i], Element(Top.x, i - 1, heap)))
          => /\ rv' = Ref(Built)
             /\ rv' # Top.x
             /\ IsArray(rv', heap')
             /\ Length(rv', heap') = Length(Top.x, heap)
             /\ keys(rv', heap') = IndexKeys(Length(Top.x, heap))
             /\ \A i \in 0..(Length(Top.x, heap) - 1) :
                   Tree(Element(rv', i, heap'), heap')
                      = Result(Top.v.subs[1], Element(Top.x, i, heap), Top.options, heap)
       /\ CallsElement
          => LET f == stack'[Len(stack)]
             IN /\ f.i = IF ctl = "call" THEN 0 ELSE Top.i + 1
                /\ f.i < Length(Top.x, heap)
                /\ stack'[Len(stack')].x = Element(Top.x, f.i, heap)
                /\ stack'[Len(stack')].v = Top.v.subs[1]
                /\ current(contexts'[f.context]) = JoinFrom(Location(Pop) \o <<IndexKey(f.i)>>, 1)
       /\ (Thrown("array") /\ err # RangeError)
          => /\ ctl' = "throw"
             /\ stack' = Pop
             /\ err' = err
             /\ err = Complaint(Top.v.subs[1], Element(Top.x, Top.i, heap), Top.options,
                                Location(stack), heap)
             /\ \A j \in 0..(Top.i - 1) :
                   Complaint(Top.v.subs[1], Element(Top.x, j, heap), Top.options, <<>>, heap) = ""]_vars

\* validate returned a new array of two elements for an array whose second
\* element only was replaced
C24_Witness ==
    /\ Validated
    /\ call.validator = "union"
    /\ outcome.value # call.value
    /\ IsArray(outcome.value, heap)
    /\ Length(outcome.value, heap) = 2
    /\ Element(call.value, 0, heap) = Num("1")
    /\ Element(outcome.value, 0, heap) = Num("1")
    /\ Element(outcome.value, 1, heap) = Num("NaN")

\* validate threw for index 1 of an array whose index 0 was accepted
C24_Rejected ==
    /\ ctl = "done"
    /\ outcome.kind = "raised"
    /\ outcome.message
          = "Validation error for key 'data.1': expected a string of hex digits, not a string"

\* this step is the throw of an object validator for an extra key
ThrowsUnexpected ==
    /\ stack # <<>>
    /\ Top.v.k = "anObject"
    /\ \/ ctl = "ret"
       \/ ctl = "call" /\ Top.x # Null /\ TypeOf(Top.x) = "object"
    /\ ctl' = "throw"
    /\ stack' = Pop

\* the validator of declared key number i of object frame f accepts f.x[key]
Accepts(f, i) ==
    Complaint(Entry(f.v, i), GetProp(f.x, f.v.keys[i], heap), f.options, <<>>, heap) = ""

Calls(h) == Length(Ref(Scope), h)

\* this step is a visit of the key declared with the thunk: the object
\* frame on top has checked that its value is an object
VisitsThunk ==
    /\ Running("anObject")
    /\ Top.x # Null
    /\ TypeOf(Top.x) = "object"

(* C26: every visit of a key declared with a thunk calls the thunk exactly *)
(* once, no other step calls it, and the value of the key is validated by  *)
(* the validator that this call returned, also when it differs from the    *)
(* one returned on the visit before; a thunk that throws leaves validate   *)
(* with the key not on the path; and a validate that returns for an array  *)
(* of k objects has called the thunk k times.                              *)
C26_ThunkEachVisit ==
    [][/\ heap # <<>> /\ heap' # <<>>
          => Calls(heap') = IF VisitsThunk THEN Calls(heap) + 1 ELSE Calls(heap)
       /\ (VisitsThunk /\ Calls(heap) < Len(Counting.subs))
          => /\ Len(stack') = Len(stack) + 1
             /\ ctl' = "call"
             /\ stack'[Len(stack')].v = Counting.subs[Calls(heap) + 1]
             /\ stack'[Len(stack')].x = GetProp(Top.x, "a", heap)
             /\ contexts'[Top.context] = Append(contexts[Top.context], "a")
       /\ (VisitsThunk /\ Calls(heap) >= Len(Counting.subs))
          => /\ stack' = Pop
             /\ ctl' = "throw"
             /\ err' = ThunkError
             /\ contexts' = contexts
       /\ (ctl' = "done" /\ call.method = "validate" /\ outcome'.kind = "returned")
          => Calls(heap') = Length(call.value, heap)]_vars

\* validate returned for an array of two objects, a string in the first
\* and a number in the second
C26_Witness ==
    /\ Validated
    /\ call.validator = "counted"
    /\ Length(call.value, heap) = 2
    /\ GetProp(Element(call.value, 0, heap), "a", heap) = Str("A")
    /\ GetProp(Element(call.value, 1, heap), "a", heap) = Num("1")
    /\ Calls(heap) = 2

RECURSIVE Custom(_)
\* the validator has in it one made by the caller with makeValidator
Custom(V) == V.k = "custom" \/ \E i \in 1..Len(V.subs) : Custom(V.subs[i])

RECURSIVE HasNaN(_, _)
\* NaN is x or is reachable from x
HasNaN(x, h) ==
    \/ x = Num("NaN")
    \/ x.t = "object" /\ \E i \in 1..Len(h[x.a].vals) : HasNaN(h[x.a].vals[i], h)

(* C27: a validator made of the library's validators and combinators only  *)
(* returns, when it returns for a value in which no number is NaN, the     *)
(* value itself, whatever allowExtraProperties is and whether or not the   *)
(* value has extra keys: so validate returns its input by reference, and   *)
(* returns something else only for a validator with a custom validator in  *)
(* it or a value with NaN in it.                                           *)
C27_NeverCopies ==
    [][~Circular =>
         /\ \A kind \in {"primitive", "aStringUnion", "aFunction", "andReturns", "orNull",
                          "orUndefined", "or", "array", "anObject"} :
               (Returns(kind) /\ ~Custom(Top.v) /\ ~HasNaN(Top.x, heap)) => rv' = Top.x
         /\ (ctl' = "done" /\ call.method = "validate" /\ outcome'.kind = "returned"
                /\ outcome'.value # call.value)
            => Custom(Named(call.validator)) \/ HasNaN(call.value, heap)]_vars

\* validate returned its input, which has an array of objects with an extra
\* key in them, with allowExtraProperties true
C27_Witness ==
    /\ Validated
    /\ call.validator = "itemValidator"
    /\ call.options.allowExtraProperties = Bool("true")
    /\ outcome.value = call.value
    /\ GetProp(Follow(call.value, <<"subItems", "0">>, heap), "foo", heap) = Str("bar")

\* the index keys of array x that validator V does not declare
ExtraIndices(V, x, h) == SelectSeq(IndexKeys(Length(x, h)), LAMBDA k : ~Declared(V, k))

\* this step is the throw of the frame on top with this complaint
Complains(message) ==
    /\ ctl' = "throw"
    /\ stack' = Pop
    /\ err' = fail(contexts'[Top.context], message)

(* C28: an object validator throws 'expected an object, not <typeName>'    *)
(* exactly when its value is null or typeof gives something other than     *)
(* 'object', so never for an array; anObject({}) returns the empty array   *)
(* it is given; and a non-empty array is treated as the object of its      *)
(* index keys: a declared key is validated on the element of that index,   *)
(* and the indices not declared are extra keys, rejected as 'unexpected    *)
(* property' or allowed as allowExtraProperties says.                      *)
C28_ArraysAreObjects ==
    [][/\ Running("anObject")
          => (Complains("expected an object, not " \o typeName(Top.x, heap))
                 <=> (Top.x = Null \/ TypeOf(Top.x) # "object"))
       /\ (Running("anObject") /\ IsArray(Top.x, heap) /\ Top.v.keys # <<>>)
          => /\ ctl' = "call"
             /\ Len(stack') = Len(stack) + 1
             /\ stack'[Len(stack')].x
                   = IF HasOwn(Top.x, Top.v.keys[1], heap)
                     THEN heap[Top.x.a].vals[KeyIndex(Top.x, Top.v.keys[1], heap)]
                     ELSE Undefined
       /\ (/\ \/ Running("anObject") /\ Top.v.keys = <<>>
              \/ LastKeyValidated
           /\ IsArray(Top.x, heap))
          => LET extra == ExtraIndices(Top.v, Top.x, heap)
             IN IF extra # <<>> /\ Top.options.allowExtraProperties # Bool("true")
                THEN Complains("unexpected property \"" \o extra[1] \o "\"")
                ELSE /\ ctl' = "ret"
                     /\ stack' = Pop
                     /\ rv' = Top.x]_vars

\* anObject({}) returned the empty array it was given
C28_Witness ==
    /\ Validated
    /\ call.validator = "anEmpty"
    /\ IsArray(call.value, heap)
    /\ Length(call.value, heap) = 0
    /\ outcome.value = call.value

\* an array of two elements was rejected for its index 1
C28_Rejected ==
    /\ ctl = "done"
    /\ call.validator = "aFirst"
    /\ IsArray(call.value, heap)
    /\ outcome.message = "Validation error: unexpected property \"1\""

RECURSIVE Cells(_, _)
\* the addresses of x and of everything reachable from x, for x without a cycle
Cells(x, h) ==
    IF x.t \in {"object", "function"}
    THEN {x.a} \cup UNION {Cells(h[x.a].vals[i], h) : i \in 1..Len(h[x.a].vals)}
    ELSE {}

\* the addresses of the value of the top-level call
Input == IF Circular THEN {1} ELSE Cells(call.value, heap)

(* C29: no step of validate or isValid changes the input or anything       *)
(* reachable from it: keys, elements and values stay as they were; a step  *)
(* writes only to the container that the frame on top is building, which   *)
(* this call created and which is not part of the input; the only other    *)
(* new objects are the values that a custom validator returns.             *)
C29_InputUntouched ==
    [][(ctl \in {"call", "ret", "throw"} /\ call.method \in {"validate", "isValid"})
          => /\ Len(heap') >= Len(heap)
             /\ \A a \in Input : heap'[a] = heap[a]
             /\ \A a \in 1..Len(heap) :
                   heap'[a] # heap[a]
                      => /\ stack # <<>>
                         /\ a = Top.result
                         /\ a \notin Input
             /\ Len(heap') > Len(heap)
                   => /\ Len(heap') = Len(heap) + 1
                      /\ Running("array") \/ Running("anObject") \/ Running("custom")
                      /\ Len(heap) + 1 \notin Input
                      /\ Len(stack') >= Len(stack) => stack'[Len(stack)].result = Len(heap) + 1]_vars

\* validate returned a new object with a new array in it, and the input
\* still has its array of strings
C29_Witness ==
    /\ Validated
    /\ call.validator = "aResponse"
    /\ outcome.value # call.value
    /\ Follow(call.value, <<"data", "1">>, heap) = Str("A")
    /\ Follow(outcome.value, <<"data", "1">>, heap).t = "object"
    /\ Follow(outcome.value, <<"data">>, heap) # Follow(call.value, <<"data">>, heap)

\* the call that is done gave what its validator, value and options give
\* when the call is the only one
Alone ==
    IF call.method = "validate"
    THEN AsAlone(Suspended)
    ELSE outcome = [kind |-> "returned",
                    value |-> IF Complaint(Named(call.validator), call.value, call.options,
                                           <<>>, heap) = ""
                              THEN Bool("true") ELSE Bool("false"),
                    message |-> ""]

(* C30: of the calls of validate and isValid made one after the other on   *)
(* one validator, none with a context of the caller, each starts with a    *)
(* new context whose path is empty, whatever the calls before did; while   *)
(* it runs, its path is the path to the value being validated and the      *)
(* paths of the calls before stay empty; and it returns or throws what the *)
(* same call gives alone, which depends on its value and options only.     *)
C30_NoResidue ==
    [][/\ (ctl \in {"idle", "done"} /\ ctl' = "call")
          => /\ Len(contexts') = Len(contexts) + 1
             /\ contexts'[Len(contexts')] = <<>>
             /\ stack'[1].context = Len(contexts')
       /\ ctl' \in {"call", "ret", "throw"}
          => /\ \A c \in 1..(Len(contexts') - 1) : contexts'[c] = <<>>
             /\ \A i \in 1..Len(stack') : stack'[i].context = Len(contexts')
       /\ ctl' = "call" => contexts'[Len(contexts')] = Location(SubSeq(stack', 1, Len(stack') - 1))
       /\ ctl' = "done"
          => /\ \A c \in 1..Len(contexts') : contexts'[c] = <<>>
             /\ Alone']_vars

\* the third call threw for a value two levels down, after a call that
\* threw for the same value and a call of isValid
C30_Witness ==
    /\ ctl = "done"
    /\ Len(contexts) = 3
    /\ call.method = "validate"
    /\ outcome.kind = "raised"
    /\ outcome.message = "Validation error for key 'subItems.0.value': expected a string, not null"
    /\ prev.kind = "returned"
    /\ prev.value = Bool("false")

====
